---- MODULE Spec2Model ----
(***************************************************************************)
(* A model of the asynchronous request/response engine of licht's LIFX    *)
(* backend (src/licht/lifx.py): the waiter tables of LifxProtocol, the     *)
(* receive path datagram_received, and the coroutines of LifxBackend that  *)
(* send with retries (directed queries, ping, acknowledged sets,           *)
(* discovery).                                                             *)
(*                                                                         *)
(* The event loop is modelled by what the asyncio API promises: callbacks  *)
(* scheduled with call_soon run one at a time, in the order they were      *)
(* scheduled (the sequence `ready`); a datagram arriving, a sleep timer    *)
(* expiring and a caller starting an operation are events of the outside   *)
(* world that may fall between any two callbacks.                          *)
(***************************************************************************)
EXTENDS Integers, Sequences, FiniteSets, TLC

\* ------------------------------------------------------------ constants
LIFX_PORT == 56700
OtherPort == LIFX_PORT + 1
\* Payloads of replies are 1 .. MaxData; Acknowledgements carry the
\* sequences up to AckSpan after the first one allocated.
MaxData == 2
AckSpan == 2
Tries == 3
Timeout == 3
SeqMod == 256
\* LifxBackend(timeout=t, tries=n) is constructed with t, n in 1 .. MaxArg.
MaxArg == 4

NoTarget == "None"
Light1 == <<"h1", LIFX_PORT, "m1">>

\* The operations a caller may start. Each is one call of a coroutine of
\* LifxBackend with fixed arguments.
Ops == {"q1", "q2", "gl", "p1", "p2", "s1", "s2", "d1", "d2"}

Kind(o) ==
    CASE o \in {"q1", "q2", "gl"} -> "query"
      [] o \in {"p1", "p2"} -> "ping"
      [] o \in {"s1", "s2"} -> "set"
      [] o \in {"d1", "d2"} -> "discover"

\* The address (host, port, target) an operation is directed at.
Addr(o) == IF o = "gl" THEN <<"h1", LIFX_PORT, NoTarget>> ELSE Light1

\* The message type of the reply the operation waits for.
StateType(o) ==
    CASE o \in {"q1", "q2"} -> "StatePower"
      [] o \in {"p1", "p2"} -> "EchoResponse"
      [] o \in {"gl", "d1", "d2"} -> "StateService"
      [] o \in {"s1", "s2"} -> "Acknowledgement"

\* ------------------------------------------------------------ state
VARIABLES
    pc,               \* position of the operation's own coroutine
    outcome,          \* what the operation gave its caller
    result,           \* the payload returned by a query
    sender,           \* the sender task: its state and its sleep
    sent,             \* the sequence numbers of the packets it transmitted
    recv,             \* the reply-table future of the operation
    ack,              \* the acknowledgement future of a set operation
    ack_wait,         \* the wait_ack task of a set operation
    waiter,           \* the future asyncio.wait() suspends on
    message_futures,  \* LifxProtocol._message_futures: key -> owner
    ack_futures,      \* LifxProtocol._ack_futures: handle -> keys
    seq_futures,      \* LifxProtocol._seq_futures: key -> handle
    seq,              \* LifxBackend._seq
    ready,            \* the loop's queue of scheduled callbacks
    discovered,       \* discovered_lights of a discovery
    yielded,          \* the lights a discovery has yielded, in order
    matched,          \* the first reply to the operation received while it listened
    unyielded,        \* the lights a discovery heard of and has not yielded
    rx_error,         \* datagram_received raised
    active,           \* the operations the caller starts in this run
    args,             \* the arguments LifxBackend was constructed with
    connection,       \* whether the endpoint was torn down, and which
                      \* operations owned a pending handle when it was
    codec,            \* a run of the bitfield codec: schema, input, output
    endpoint          \* LifxBackend._endpoint: None, or the state of the task
                      \* that creates the datagram endpoint

vars == <<pc, outcome, result, sender, sent, recv, ack, ack_wait, waiter,
          message_futures, ack_futures, seq_futures, seq, ready,
          discovered, yielded, matched, unyielded, rx_error, active, args,
          connection, codec, endpoint>>

Item(k, o) == [k |-> k, o |-> o]

NoSender == [task |-> "none", sleep |-> "none", must_cancel |-> FALSE, packet_seq |-> 0]

\* ------------------------------------------------------------ keys
ReplyKey(addr, mt) == <<"addr", addr[1], addr[2], addr[3], mt>>
AllKey(mt) == <<"all", "", 0, "", mt>>
SeqKey(addr, s) == <<addr, s>>

Remove(f, k) == [x \in DOMAIN f \ {k} |-> f[x]]
Put(f, k, v) == [x \in DOMAIN f \cup {k} |-> IF x = k THEN v ELSE f[x]]

\* ------------------------------------------------------------ callbacks
\* The done-callbacks registered on an operation's futures follow from
\* where its coroutine is suspended: inside asyncio.wait() both futures
\* carry _on_completion, inside a plain await the future carries the
\* wake-up of the awaiting task.
RecvCallbacks(o) ==
    IF pc[o] = "wait" THEN <<Item("oncomp", o)>>
    ELSE IF pc[o] \in {"await_receiver", "await_response"} THEN <<Item("main", o)>>
    ELSE <<>>

SenderCallbacks(o) ==
    IF pc[o] = "wait" THEN <<Item("oncomp", o)>>
    ELSE IF pc[o] = "await_sender" THEN <<Item("main", o)>>
    ELSE <<>>

AckWaitCallbacks(o) == IF pc[o] = "wait" THEN <<Item("oncomp", o)>> ELSE <<>>

AckCallbacks(o) == IF ack_wait[o] = "awaiting" THEN <<Item("ackwait", o)>> ELSE <<>>

\* ------------------------------------------------------------ datagrams
\* A received datagram, as _parse_response classifies it: the sender's
\* (host, port), the frame-address target and sequence, the message type,
\* and the payload (an opaque value; for StateService the service port).
\* `form` tells how the bytes parse: "ok", "short_header" (fewer than the
\* 36 bytes of Header), "short_payload" (fewer payload bytes than the schema
\* of the message type has).
Datagram(h, p, t, mt, s, x) ==
    [host |-> h, port |-> p, target |-> t, type |-> mt, sequence |-> s, data |-> x,
     form |-> "ok"]

Malformed(d, f) == [d EXCEPT !.form = f]

\* The message types of the model; any other type code is unknown to
\* MessageType.
MessageType == {"StateService", "StatePower", "EchoResponse", "Acknowledgement"}

\* A source address that takes the port to be the LIFX port.
FromAnyPort(d) == <<d.host, LIFX_PORT, d.target>>

From(d) == <<d.host, d.port, d.target>>

NoDatagram == Datagram("", 0, "", "", 0, 0)
NoRecv == [st |-> "none", data |-> NoDatagram]

\* The senders a datagram may come from: the light, and one that differs
\* from it in the host, in the port, in the target.
Sources ==
    { Light1, <<"h2", LIFX_PORT, "m1">>, <<"h1", OtherPort, "m1">>,
      <<"h1", LIFX_PORT, "m2">> }

\* The values _seq starts from: the counter wraps within every run.
StartSeqs == {254}

\* The sequence numbers an Acknowledgement may carry: the one before the
\* first allocated in a run, and those of the first AckSpan + 1
\* allocations (all retries of one set operation, or retries of two).
AckSeqs == { (s0 + k) % SeqMod : s0 \in StartSeqs, k \in -1 .. AckSpan }

\* ------------------------------------------------------------ Init
\* LifxBackend.__init__: the attributes it assigns for the arguments given.
LifxBackend(timeout, tries) == [timeout |-> Timeout, tries |-> Tries]

\* No run of the codec.
NoCodec == [pc |-> "idle"]

NotLost == [lost |-> FALSE, pending |-> {}]

\* The state after LifxBackend(...), before any operation: empty tables, a
\* counter value random.randint can draw.
InitTables ==
    /\ pc = [o \in Ops |-> "idle"]
    /\ outcome = [o \in Ops |-> "none"]
    /\ result = [o \in Ops |-> 0]
    /\ sender = [o \in Ops |-> NoSender]
    /\ sent = [o \in Ops |-> <<>>]
    /\ recv = [o \in Ops |-> NoRecv]
    /\ ack = [o \in Ops |-> "none"]
    /\ ack_wait = [o \in Ops |-> "none"]
    /\ waiter = [o \in Ops |-> "none"]
    /\ message_futures = <<>>
    /\ ack_futures = <<>>
    /\ seq_futures = <<>>
    /\ seq \in StartSeqs
    /\ ready = <<>>
    /\ discovered = [o \in Ops |-> {}]
    /\ yielded = [o \in Ops |-> <<>>]
    /\ matched = [o \in Ops |-> NoDatagram]
    /\ unyielded = [o \in Ops |-> {}]
    /\ rx_error = FALSE
    /\ connection = NotLost

\* The state after LifxBackend(...) and the creation of the endpoint by an
\* earlier operation.
InitEngine == InitTables /\ endpoint = "done"

\* The backend constructed with its default arguments; no codec run.
Init ==
    /\ InitEngine
    /\ args = [timeout |-> 3, tries |-> 3]
    /\ codec = NoCodec

\* ------------------------------------------------------------ LifxBackend
\* A _get_seq that increments without the mask.
get_seq_unmasked(s) == [value |-> s, next |-> s + 1]

\* _get_seq: the value returned and the counter afterwards.
get_seq(s) == [value |-> s, next |-> (s + 1) % SeqMod]

InFlight(o) == pc[o] \notin {"idle", "done"}

\* asyncio.sleep(timeout / tries) of a sender elapses: the timer resolves
\* the sleep future, whose callback wakes the sender task.
TimerFire(o) ==
    /\ sender[o].sleep = "pending"
    /\ sender' = [sender EXCEPT ![o].sleep = "done"]
    /\ ready' = Append(ready, Item("sender", o))
    /\ UNCHANGED <<active, args, endpoint, connection, codec, unyielded, pc, outcome, result, sent, recv, ack, ack_wait, waiter,
                   message_futures, ack_futures, seq_futures, seq,
                   discovered, yielded, matched, rx_error>>

\* _on_completion of asyncio.wait(..., return_when=FIRST_COMPLETED): the
\* first future to complete resolves the waiter, which wakes the coroutine
\* that called wait(); the callback of the second finds the waiter done.
OnCompletion(o) ==
    /\ ready # <<>> /\ Head(ready) = Item("oncomp", o)
    /\ IF waiter[o] = "pending"
       THEN /\ waiter' = [waiter EXCEPT ![o] = "done"]
            /\ ready' = Append(Tail(ready), Item("main", o))
       ELSE /\ ready' = Tail(ready)
            /\ UNCHANGED waiter
    /\ UNCHANGED <<active, args, endpoint, connection, codec, unyielded, pc, outcome, result, sender, sent, recv, ack, ack_wait,
                   message_futures, ack_futures, seq_futures, seq,
                   discovered, yielded, matched, rx_error>>

\* A cancel() that leaves the task as it is.
CancelTaskIgnored(s) == s

\* Task.cancel() on a sender that has not finished: a sender suspended in
\* its sleep has the sleep future cancelled (its callback wakes the task);
\* a sender whose step is already scheduled is marked _must_cancel.
CancelTask(s) ==
    IF s.sleep = "pending"
    THEN [s EXCEPT !.sleep = "cancelled"]
    ELSE [s EXCEPT !.must_cancel = TRUE]

\* A cancel() that marks the sleep cancelled but schedules no wake-up.
CancelTaskNoWake(o) == <<>>

CancelTaskWake(o) ==
    IF sender[o].sleep = "pending" THEN <<Item("sender", o)>> ELSE <<>>

\* The entry of _get_state_response and _ping after the endpoint is there:
\* get_response registers the waiter (or raises ValueError on an occupied
\* key, before the sender task exists), _wait_sender_receiver creates the
\* sender task and suspends in asyncio.wait().
StartDirected(o, seq_after) ==
    /\ o \in active
    /\ pc[o] = "idle"
    /\ seq' = seq_after
    /\ LET key == ReplyKey(Addr(o), StateType(o)) IN
       IF key \in DOMAIN message_futures
       THEN /\ pc' = [pc EXCEPT ![o] = "done"]
            /\ outcome' = [outcome EXCEPT ![o] = "ValueError"]
            /\ UNCHANGED <<message_futures, recv, sender, waiter, ready>>
       ELSE /\ message_futures' = Put(message_futures, key, o)
            /\ recv' = [recv EXCEPT ![o] = [st |-> "pending", data |-> NoDatagram]]
            /\ sender' = [sender EXCEPT ![o].task = "pending",
                                        ![o].packet_seq = seq]
            /\ waiter' = [waiter EXCEPT ![o] = "pending"]
            /\ ready' = Append(ready, Item("sender", o))
            /\ pc' = [pc EXCEPT ![o] = "wait"]
            /\ UNCHANGED outcome
    /\ UNCHANGED <<active, args, endpoint, connection, codec, unyielded, result, sent, ack, ack_wait, ack_futures, seq_futures,
                   discovered, yielded, matched, rx_error>>

get_state_response(o) ==
    /\ Kind(o) = "query"
    /\ StartDirected(o, seq)

\* The payload of the EchoRequest of a ping (random bytes in the program;
\* EchoResponse datagrams carry this payload or another).
EchoPayload(o) == 1

\* _ping allocates the sequence of its one packet before it registers.
ping(o) ==
    /\ Kind(o) = "ping"
    /\ StartDirected(o, get_seq(seq).next)

\* Whether the sender's retry loop transmits once more when the task is
\* stepped: it was not cancelled in its sleep and `for i in range(tries)`
\* is not exhausted.
SenderGoesOn(o) ==
    /\ ~sender[o].must_cancel
    /\ sender[o].sleep # "cancelled"
    /\ Len(sent[o]) < LifxBackend(args.timeout, args.tries).tries

\* A step of the task running _get_packet_response: its first step or its
\* wake-up from asyncio.sleep. It transmits the next copy and sleeps, or
\* (retries exhausted, or cancelled in the sleep) leaves the loop, calls
\* cancel_response(addr, response_type) and returns.
get_packet_response(o) ==
    /\ ready # <<>> /\ Head(ready) = Item("sender", o)
    /\ Kind(o) \in {"query", "ping"}
    /\ sender[o].task = "pending"
    /\ LET key == ReplyKey(Addr(o), StateType(o))
           hit == key \in DOMAIN message_futures
           owner == message_futures[key]
           a == get_seq(seq)
       IN
       IF sender[o].sleep = "none" /\ sender[o].must_cancel
       THEN \* CancelledError thrown into the coroutine before it started
            /\ sender' = [sender EXCEPT ![o].task = "cancelled",
                                        ![o].must_cancel = FALSE]
            /\ ready' = Tail(ready) \o SenderCallbacks(o)
            /\ UNCHANGED <<sent, seq, message_futures, recv>>
       ELSE IF SenderGoesOn(o)
       THEN /\ sent' = [sent EXCEPT ![o] =
                          Append(@, IF Kind(o) = "query" THEN a.value
                                    ELSE sender[o].packet_seq)]
            /\ seq' = IF Kind(o) = "query" THEN a.next ELSE seq
            /\ sender' = [sender EXCEPT ![o].sleep = "pending"]
            /\ ready' = Tail(ready)
            /\ UNCHANGED <<message_futures, recv>>
       ELSE \* cancel_response: pop the key, cancel the future found there
            /\ message_futures' =
                 IF hit THEN Remove(message_futures, key) ELSE message_futures
            /\ recv' = IF hit THEN [recv EXCEPT ![owner].st = "cancelled"] ELSE recv
            /\ sender' = [sender EXCEPT ![o].task = "done",
                                        ![o].must_cancel = FALSE]
            /\ ready' = (Tail(ready) \o (IF hit THEN RecvCallbacks(owner) ELSE <<>>))
                          \o SenderCallbacks(o)
            /\ UNCHANGED <<sent, seq>>
    /\ UNCHANGED <<active, args, endpoint, connection, codec, unyielded, pc, outcome, result, ack, ack_wait, waiter, ack_futures,
                   seq_futures, discovered, yielded, matched, rx_error>>

\* What the caller gets of the response _wait_sender_receiver returned:
\* _get_state_response parses the payload with the schema of the reply
\* type (ValueError('missing data') on a payload shorter than the schema),
\* _ping returns without reading it.
ResponseOutcome(o, d) ==
    IF Kind(o) = "query" /\ d.form = "short_payload" THEN "ValueError" ELSE "ok"

\* The caller cancels the task that runs the operation while the
\* operation is suspended in asyncio.wait(): the future wait() suspends on
\* is cancelled and the task woken (a task whose wake-up is scheduled
\* already is marked to be cancelled at that step).
cancel(o) ==
    /\ Kind(o) \in {"query", "ping", "set"}
    /\ pc[o] = "wait"
    /\ waiter[o] \in {"pending", "done"}
    /\ waiter' = [waiter EXCEPT ![o] = "cancelled"]
    /\ ready' = IF waiter[o] = "pending" THEN Append(ready, Item("main", o)) ELSE ready
    /\ UNCHANGED <<active, args, endpoint, connection, codec, unyielded, pc, outcome, result, sender, sent,
                   recv, ack, ack_wait, message_futures, ack_futures,
                   seq_futures, seq, discovered, yielded, matched, rx_error>>

\* _wait_sender_receiver resumed: after asyncio.wait() it cancels a sender
\* that is not done and awaits it; then it awaits the receiver, returns
\* its result or turns its cancellation into LichtTimeoutError. Resumed by
\* the caller's cancellation, asyncio.wait() raises CancelledError, which
\* leaves the coroutine at once.
wait_sender_receiver(o) ==
    /\ ready # <<>> /\ Head(ready) = Item("main", o)
    /\ Kind(o) \in {"query", "ping"}
    /\ pc[o] \in {"wait", "await_sender", "await_receiver"}
    /\ IF pc[o] = "wait" /\ waiter[o] = "cancelled"
       THEN /\ pc' = [pc EXCEPT ![o] = "done"]
            /\ outcome' = [outcome EXCEPT ![o] = "CancelledError"]
            /\ ready' = Tail(ready)
            /\ UNCHANGED <<sender, result>>
       ELSE IF sender[o].task = "pending"
       THEN \* sender.cancel(); await sender
            /\ sender' = [sender EXCEPT ![o] = CancelTask(@)]
            /\ ready' = Tail(ready) \o CancelTaskWake(o)
            /\ pc' = [pc EXCEPT ![o] = "await_sender"]
            /\ UNCHANGED <<outcome, result>>
       ELSE /\ ready' = Tail(ready)
            /\ UNCHANGED sender
            /\ CASE recv[o].st = "result" ->
                      /\ pc' = [pc EXCEPT ![o] = "done"]
                      /\ outcome' = [outcome EXCEPT ![o] =
                                       ResponseOutcome(o, recv[o].data)]
                      /\ result' = [result EXCEPT ![o] =
                                      IF ResponseOutcome(o, recv[o].data) = "ok"
                                      THEN recv[o].data.data ELSE @]
                 [] recv[o].st = "cancelled" ->
                      /\ pc' = [pc EXCEPT ![o] = "done"]
                      /\ outcome' = [outcome EXCEPT ![o] = "LichtTimeoutError"]
                      /\ UNCHANGED result
                 [] OTHER ->
                      /\ pc' = [pc EXCEPT ![o] = "await_receiver"]
                      /\ UNCHANGED <<outcome, result>>
    /\ UNCHANGED <<active, args, endpoint, connection, codec, unyielded, sent, recv, ack, ack_wait, waiter, message_futures,
                   ack_futures, seq_futures, seq, discovered, yielded,
                   matched, rx_error>>

\* ------------------------------------------------------------ sets
\* _remove_ack: the sequence table and the acknowledgement table without
\* the keys listed for the handle and without the handle.
Range(q) == { q[i] : i \in 1 .. Len(q) }

\* A _remove_ack that drops the handle but leaves its sequence keys.
remove_ack_seq_leak(o) == seq_futures

remove_ack_seq(o) ==
    IF o \in DOMAIN ack_futures
    THEN [k \in DOMAIN seq_futures \ Range(ack_futures[o]) |-> seq_futures[k]]
    ELSE seq_futures

remove_ack_ack(o) ==
    IF o \in DOMAIN ack_futures THEN Remove(ack_futures, o) ELSE ack_futures

\* A register_ack_seq that lists the key for the handle but does not enter
\* it in the sequence table.
register_ack_seq_unentered(o, key) == seq_futures

\* register_ack_seq, for a key that is free: the sequence table with the
\* key bound to the handle, or as it was when the handle is not in the
\* acknowledgement table.
register_ack_seq(o, key) ==
    IF o \in DOMAIN ack_futures THEN Put(seq_futures, key, o) ELSE seq_futures

\* _ack_set_packet up to its asyncio.wait(): get_ack creates the handle
\* with an empty key list, the sender task and the wait_ack task are
\* created (their first steps scheduled, in this order).
ack_set_packet(o) ==
    /\ Kind(o) = "set"
    /\ o \in active
    /\ pc[o] = "idle"
    /\ ack' = [ack EXCEPT ![o] = "pending"]
    /\ ack_futures' = Put(ack_futures, o, <<>>)
    /\ sender' = [sender EXCEPT ![o].task = "pending"]
    /\ ack_wait' = [ack_wait EXCEPT ![o] = "created"]
    /\ waiter' = [waiter EXCEPT ![o] = "pending"]
    /\ ready' = ready \o <<Item("sender", o), Item("ackwait", o)>>
    /\ pc' = [pc EXCEPT ![o] = "wait"]
    /\ UNCHANGED <<active, args, endpoint, connection, codec, unyielded, outcome, result, sent, recv, message_futures,
                   seq_futures, seq, discovered, yielded, matched, rx_error>>

\* A step of the task running _send_set_packet. Each retry allocates a
\* sequence, registers it for the handle (register_ack_seq: nothing when
\* the handle is gone, ValueError when the key is taken), transmits and
\* sleeps; after the loop cancel_ack cancels the handle and removes it.
send_set_packet(o) ==
    /\ ready # <<>> /\ Head(ready) = Item("sender", o)
    /\ Kind(o) = "set"
    /\ sender[o].task = "pending"
    /\ LET a == get_seq(seq)
           key == SeqKey(Addr(o), a.value)
           known == o \in DOMAIN ack_futures
       IN
       IF sender[o].sleep = "none" /\ sender[o].must_cancel
       THEN /\ sender' = [sender EXCEPT ![o].task = "cancelled",
                                        ![o].must_cancel = FALSE]
            /\ ready' = Tail(ready) \o SenderCallbacks(o)
            /\ UNCHANGED <<sent, seq, ack, ack_futures, seq_futures>>
       ELSE IF SenderGoesOn(o)
       THEN /\ seq' = a.next
            /\ UNCHANGED ack
            /\ IF known /\ key \in DOMAIN seq_futures
               THEN \* ValueError('already registered') ends the task
                    /\ sender' = [sender EXCEPT ![o].task = "exc"]
                    /\ ready' = Tail(ready) \o SenderCallbacks(o)
                    /\ UNCHANGED <<sent, ack_futures, seq_futures>>
               ELSE /\ ack_futures' =
                         IF known THEN [ack_futures EXCEPT ![o] = Append(@, key)]
                         ELSE ack_futures
                    /\ seq_futures' = register_ack_seq(o, key)
                    /\ sent' = [sent EXCEPT ![o] = Append(@, a.value)]
                    /\ sender' = [sender EXCEPT ![o].sleep = "pending"]
                    /\ ready' = Tail(ready)
       ELSE \* cancel_ack(ack): ack.cancel(), _remove_ack(ack)
            /\ ack' = IF ack[o] = "pending" THEN [ack EXCEPT ![o] = "cancelled"] ELSE ack
            /\ seq_futures' = remove_ack_seq(o)
            /\ ack_futures' = remove_ack_ack(o)
            /\ sender' = [sender EXCEPT ![o].task = "done",
                                        ![o].must_cancel = FALSE]
            /\ ready' = (Tail(ready)
                           \o (IF ack[o] = "pending" THEN AckCallbacks(o) ELSE <<>>))
                          \o SenderCallbacks(o)
            /\ UNCHANGED <<sent, seq>>
    /\ UNCHANGED <<active, args, endpoint, connection, codec, unyielded, pc, outcome, result, recv, ack_wait, waiter,
                   message_futures, discovered, yielded, matched, rx_error>>

\* A step of the task running wait_ack: its first step checks the handle
\* and awaits it; when the await ends, by result or by cancellation, the
\* finally clause runs _remove_ack.
wait_ack(o) ==
    /\ ready # <<>> /\ Head(ready) = Item("ackwait", o)
    /\ ack_wait[o] \in {"created", "awaiting"}
    /\ IF ack_wait[o] = "created" /\ o \notin DOMAIN ack_futures
       THEN \* ValueError('invalid ack')
            /\ ack_wait' = [ack_wait EXCEPT ![o] = "exc"]
            /\ ready' = Tail(ready) \o AckWaitCallbacks(o)
            /\ UNCHANGED <<ack_futures, seq_futures>>
       ELSE IF ack[o] = "pending"
       THEN /\ ack_wait' = [ack_wait EXCEPT ![o] = "awaiting"]
            /\ ready' = Tail(ready)
            /\ UNCHANGED <<ack_futures, seq_futures>>
       ELSE /\ ack_wait' = [ack_wait EXCEPT ![o] =
                              IF ack[o] = "result" THEN "done" ELSE "cancelled"]
            /\ seq_futures' = remove_ack_seq(o)
            /\ ack_futures' = remove_ack_ack(o)
            /\ ready' = Tail(ready) \o AckWaitCallbacks(o)
    /\ UNCHANGED <<active, args, endpoint, connection, codec, unyielded, pc, outcome, result, sender, sent, recv, ack, waiter,
                   message_futures, seq, discovered, yielded, matched, rx_error>>

\* What _ack_set_packet gives its caller once asyncio.wait() has returned:
\* the sender's exception if it died, LichtTimeoutError if wait_ack was
\* cancelled, else the result of wait_ack (InvalidStateError if that task
\* is not done).
AckSetOutcome(snd, aw) ==
    CASE snd = "exc" -> "ValueError"
      [] snd = "cancelled" -> "CancelledError"
      [] aw = "cancelled" -> "LichtTimeoutError"
      [] aw = "done" -> "ok"
      [] aw = "exc" -> "ValueError"
      [] OTHER -> "InvalidStateError"

\* _ack_set_packet resumed after asyncio.wait(): it cancels a sender that
\* is not done and returns or raises at once, without awaiting the sender.
\* Resumed by the caller's cancellation, asyncio.wait() raises
\* CancelledError, which leaves the coroutine at once.
ack_set_packet_resume(o) ==
    /\ ready # <<>> /\ Head(ready) = Item("main", o)
    /\ Kind(o) = "set"
    /\ pc[o] = "wait"
    /\ pc' = [pc EXCEPT ![o] = "done"]
    /\ IF waiter[o] = "cancelled"
       THEN /\ outcome' = [outcome EXCEPT ![o] = "CancelledError"]
            /\ ready' = Tail(ready)
            /\ UNCHANGED sender
       ELSE /\ sender' = IF sender[o].task = "pending"
                         THEN [sender EXCEPT ![o] = CancelTask(@)] ELSE sender
            /\ ready' = Tail(ready)
                  \o (IF sender[o].task = "pending" THEN CancelTaskWake(o) ELSE <<>>)
            /\ outcome' = [outcome EXCEPT ![o] =
                             AckSetOutcome(sender[o].task, ack_wait[o])]
    /\ UNCHANGED <<active, args, endpoint, connection, codec, unyielded, result, sent, recv, ack, ack_wait, waiter,
                   message_futures, ack_futures, seq_futures, seq,
                   discovered, yielded, matched, rx_error>>

\* ------------------------------------------------------------ discovery
\* The address discover_lights makes of a StateService reply: the host it
\* came from, the port its payload names, the frame-address target.
LightAddr(d) == <<d.host, d.data, d.target>>

\* A discover_lights without its `addr not in discovered_lights` test.
IsNewAlways(addr, seen) == TRUE

\* Whether discover_lights yields the address of a reply.
IsNew(addr, seen) == addr \notin seen

\* The top of the loop of discover_lights: get_response_all registers a
\* fresh broadcast waiter (ValueError on an occupied key, which ends the
\* generator), asyncio.wait() suspends on the sender and the waiter; a
\* sender that is done already has _on_completion scheduled at once.
\* `rdy` is the queue the callbacks are appended to.
Rearm(o, rdy) ==
    LET key == AllKey(StateType(o)) IN
    IF key \in DOMAIN message_futures
    THEN /\ pc' = [pc EXCEPT ![o] = "done"]
         /\ outcome' = [outcome EXCEPT ![o] = "ValueError"]
         /\ ready' = rdy
         /\ UNCHANGED <<message_futures, recv, waiter>>
    ELSE /\ message_futures' = Put(message_futures, key, o)
         /\ recv' = [recv EXCEPT ![o] = [st |-> "pending", data |-> NoDatagram]]
         /\ waiter' = [waiter EXCEPT ![o] = "pending"]
         /\ pc' = [pc EXCEPT ![o] = "wait"]
         /\ ready' = rdy \o (IF sender[o].task \in {"none", "pending"} THEN <<>>
                             ELSE <<Item("oncomp", o)>>)
         /\ UNCHANGED outcome

\* The consumer's first request of the stream: discover_lights runs to its
\* first asyncio.wait(). The sender task is created before the waiter is
\* registered.
discover_lights(o) ==
    /\ Kind(o) = "discover"
    /\ o \in active
    /\ pc[o] = "idle"
    /\ sender' = [sender EXCEPT ![o].task = "pending"]
    /\ Rearm(o, Append(ready, Item("sender", o)))
    /\ UNCHANGED <<active, args, endpoint, connection, codec, unyielded, result, sent, ack, ack_wait, ack_futures,
                   seq_futures, seq, discovered, yielded, matched, rx_error>>

\* A step of the task running _send_discover_packets: it broadcasts
\* GetService and sleeps, `tries` times, then calls cancel_response_all.
send_discover_packets(o) ==
    /\ ready # <<>> /\ Head(ready) = Item("sender", o)
    /\ Kind(o) = "discover"
    /\ sender[o].task = "pending"
    /\ LET key == AllKey(StateType(o))
           hit == key \in DOMAIN message_futures
           owner == message_futures[key]
           a == get_seq(seq)
       IN
       IF Len(sent[o]) < LifxBackend(args.timeout, args.tries).tries
       THEN /\ sent' = [sent EXCEPT ![o] = Append(@, a.value)]
            /\ seq' = a.next
            /\ sender' = [sender EXCEPT ![o].sleep = "pending"]
            /\ ready' = Tail(ready)
            /\ UNCHANGED <<message_futures, recv>>
       ELSE /\ message_futures' =
                 IF hit THEN Remove(message_futures, key) ELSE message_futures
            /\ recv' = IF hit THEN [recv EXCEPT ![owner].st = "cancelled"] ELSE recv
            /\ sender' = [sender EXCEPT ![o].task = "done"]
            /\ ready' = (Tail(ready) \o (IF hit THEN RecvCallbacks(owner) ELSE <<>>))
                          \o SenderCallbacks(o)
            /\ UNCHANGED <<sent, seq>>
    /\ UNCHANGED <<active, args, endpoint, connection, codec, unyielded, pc, outcome, result, ack, ack_wait, waiter, ack_futures,
                   seq_futures, discovered, yielded, matched, rx_error>>

\* Whether discover_lights, resumed, yields the light of the reply it holds.
Yields(o) ==
    /\ sender[o].task = "pending"
    /\ recv[o].st = "result"
    /\ IsNew(LightAddr(recv[o].data), discovered[o])

\* discover_lights resumed, after asyncio.wait() or after its await of the
\* response future. With the sender done it awaits the response future
\* and ends the stream; otherwise it takes the reply, yields the light if
\* its address is new, and else goes round the loop.
discover_lights_resume(o) ==
    /\ ready # <<>> /\ Head(ready) = Item("main", o)
    /\ Kind(o) = "discover"
    /\ pc[o] \in {"wait", "await_response"}
    /\ LET addr == LightAddr(recv[o].data) IN
       /\ unyielded' = IF Yields(o) THEN [unyielded EXCEPT ![o] = @ \ {addr}]
                       ELSE unyielded
       /\ IF sender[o].task # "pending"
          THEN /\ IF recv[o].st = "pending"
                  THEN pc' = [pc EXCEPT ![o] = "await_response"] /\ UNCHANGED outcome
                  ELSE /\ pc' = [pc EXCEPT ![o] = "done"]
                       /\ outcome' = [outcome EXCEPT ![o] = "ok"]
               /\ ready' = Tail(ready)
               /\ UNCHANGED <<message_futures, recv, waiter, discovered, yielded>>
          ELSE IF recv[o].st # "result"
          THEN \* response_future.result() raises
               /\ pc' = [pc EXCEPT ![o] = "done"]
               /\ outcome' = [outcome EXCEPT ![o] =
                                IF recv[o].st = "cancelled" THEN "CancelledError"
                                ELSE "InvalidStateError"]
               /\ ready' = Tail(ready)
               /\ UNCHANGED <<message_futures, recv, waiter, discovered, yielded>>
          ELSE IF IsNew(addr, discovered[o])
          THEN /\ discovered' = [discovered EXCEPT ![o] = @ \cup {addr}]
               /\ yielded' = [yielded EXCEPT ![o] = Append(@, addr)]
               /\ pc' = [pc EXCEPT ![o] = "yielded"]
               /\ ready' = Tail(ready)
               /\ UNCHANGED <<message_futures, recv, waiter, outcome>>
          ELSE /\ Rearm(o, Tail(ready))
               /\ UNCHANGED <<discovered, yielded>>
    /\ UNCHANGED <<active, args, endpoint, connection, codec, result, sender, sent, ack, ack_wait, ack_futures,
                   seq_futures, seq, matched, rx_error>>

\* The consumer of the stream, having been handed a light, asks for the
\* next one: discover_lights goes on after its yield, round the loop. The
\* consumer may do so at once or after any number of other events.
ConsumerNext(o) ==
    /\ Kind(o) = "discover"
    /\ pc[o] = "yielded"
    /\ Rearm(o, ready)
    /\ UNCHANGED <<active, args, endpoint, connection, codec, unyielded, result, sender, sent, ack, ack_wait, ack_futures,
                   seq_futures, seq, discovered, yielded, matched, rx_error>>

\* ------------------------------------------------------------ LifxProtocol
\* Keys that end with the broadcast key of the StateService type, whatever
\* the type of the datagram.
try_keys_any_type(d) ==
    << AllKey(d.type),
       ReplyKey(From(d), d.type),
       ReplyKey(<<d.host, d.port, NoTarget>>, d.type),
       AllKey("StateService") >>

\* The keys datagram_received tries, in its order, for a datagram that is
\* not an Acknowledgement.
try_keys(d) ==
    << AllKey(d.type),
       ReplyKey(From(d), d.type),
       ReplyKey(<<d.host, d.port, NoTarget>>, d.type) >>

Min(S) == CHOOSE x \in S : \A y \in S : x <= y

\* Whether datagram d answers operation o: it has the type o waits for and
\* comes from o's address (any target when o was given none); for a set,
\* it acknowledges the sequence of a packet o transmitted.
Matches(o, d) ==
    CASE Kind(o) \in {"query", "ping"} ->
            /\ d.type = StateType(o)
            /\ d.host = Addr(o)[1] /\ d.port = Addr(o)[2]
            /\ (Addr(o)[3] = NoTarget \/ d.target = Addr(o)[3])
      [] Kind(o) = "set" ->
            /\ d.type = "Acknowledgement"
            /\ From(d) = Addr(o)
            /\ \E i \in 1 .. Len(sent[o]) : sent[o][i] = d.sequence
      [] OTHER -> FALSE

\* A directed operation listens for its reply from its registration until
\* its sender task has ended.
Listening(o) == InFlight(o) /\ sender[o].task = "pending"

\* The record of the first reply to each operation (kept for the
\* properties; the program does not read it).
FirstReply(d) ==
    [o \in Ops |-> IF matched[o] = NoDatagram /\ Listening(o) /\ Matches(o, d)
                   THEN d ELSE matched[o]]

\* _parse_response: Header.from_bytes raises ValueError('missing data') on
\* fewer bytes than the header has; a type code MessageType does not know
\* gives None; else the header and the payload.
parse_response(d) ==
    IF d.form = "short_header" THEN "ValueError"
    ELSE IF d.type \notin MessageType THEN "None"
    ELSE "response"

\* The record of the lights a discovery has heard of and not yielded (kept
\* for the properties; the program does not read it): the light of a
\* StateService reply received while the sender of the discovery runs and
\* has broadcast joins it, unless the discovery has yielded that light.
Heard(d) ==
    [o \in Ops |->
        IF /\ Kind(o) = "discover" /\ InFlight(o)
           /\ sender[o].task = "pending" /\ sent[o] # <<>>
           /\ d.type = StateType(o)
           /\ IsNew(LightAddr(d), discovered[o])
        THEN unyielded[o] \cup {LightAddr(d)} ELSE unyielded[o]]

\* The transport calls datagram_received for a datagram that arrived; it
\* calls it no more once it has called connection_lost.
datagram_received(d) ==
    /\ ~connection.lost
    /\ matched' = IF parse_response(d) = "response" THEN FirstReply(d) ELSE matched
    /\ unyielded' = IF parse_response(d) = "response" THEN Heard(d) ELSE unyielded
    /\ IF parse_response(d) = "ValueError"
       THEN /\ rx_error' = TRUE
            /\ UNCHANGED <<message_futures, recv, ack, ready>>
       ELSE IF parse_response(d) = "None"
       THEN UNCHANGED <<message_futures, recv, ack, ready, rx_error>>
       ELSE IF d.type = "Acknowledgement"
       THEN /\ UNCHANGED <<message_futures, recv>>
            /\ LET key == SeqKey(From(d), d.sequence) IN
               IF key \notin DOMAIN seq_futures
               THEN UNCHANGED <<ack, ready, rx_error>>
               ELSE IF ack[seq_futures[key]] = "pending"
               THEN /\ ack' = [ack EXCEPT ![seq_futures[key]] = "result"]
                    /\ ready' = ready \o AckCallbacks(seq_futures[key])
                    /\ UNCHANGED rx_error
               ELSE \* set_result on a future that is done: InvalidStateError
                    /\ rx_error' = TRUE
                    /\ UNCHANGED <<ack, ready>>
       ELSE LET keys == try_keys(d)
                hits == {i \in 1 .. Len(keys) : keys[i] \in DOMAIN message_futures}
                key == keys[Min(hits)]
                o == message_futures[key]
            IN
            IF hits = {}
            THEN UNCHANGED <<message_futures, recv, ready, ack, rx_error>>
            ELSE /\ message_futures' = Remove(message_futures, key)
                 /\ recv' = [recv EXCEPT ![o] = [st |-> "result", data |-> d]]
                 /\ ready' = ready \o RecvCallbacks(o)
                 /\ UNCHANGED <<ack, rx_error>>
    /\ UNCHANGED <<active, args, endpoint, connection, codec, pc, outcome, result, sender, sent, ack_wait, waiter,
                   ack_futures, seq_futures, seq, discovered, yielded>>

\* The operations that own a pending reply waiter or a pending
\* acknowledgement handle.
Owners == { o \in Ops : InFlight(o) /\ (recv[o].st = "pending" \/ ack[o] = "pending") }

\* The orders a set of operations can be listed in.
Orders(S) ==
    { q \in [1 .. Cardinality(S) -> S] : \A i, j \in DOMAIN q : q[i] = q[j] => i = j }

RECURSIVE CallbacksOf(_)
CallbacksOf(q) == IF q = <<>> THEN <<>> ELSE RecvCallbacks(Head(q)) \o CallbacksOf(Tail(q))

\* connection_lost: every future of the reply table is cancelled (its
\* callbacks scheduled, in the order of the table) and the reply table is
\* replaced by an empty one. The acknowledgement and sequence tables are
\* not touched.
connection_lost ==
    /\ ~connection.lost
    /\ connection' = [lost |-> TRUE, pending |-> Owners]
    /\ LET waiting == { message_futures[k] : k \in DOMAIN message_futures } IN
       /\ recv' = [o \in Ops |-> IF o \in waiting
                                 THEN [recv[o] EXCEPT !.st = "cancelled"] ELSE recv[o]]
       /\ \E q \in Orders(waiting) : ready' = ready \o CallbacksOf(q)
    /\ message_futures' = <<>>
    /\ UNCHANGED <<active, args, endpoint, codec, unyielded, pc, outcome, result, sender, sent, ack,
                   ack_wait, waiter, ack_futures, seq_futures, seq, discovered,
                   yielded, matched, rx_error>>

\* ------------------------------------------------------------ directed
\* Runs of directed queries and pings: two get_power calls on the same
\* light, or two pings of it, started at any time, with any StatePower and
\* EchoResponse datagram arriving at any time.
ScenariosDirected == { {"q1", "q2"}, {"p1", "p2"} }

DatagramsDirected ==
    { Datagram(a[1], a[2], a[3], mt, 0, x) :
        a \in Sources, mt \in {"StatePower", "EchoResponse"}, x \in 1 .. MaxData }

InitDirected == Init /\ active \in ScenariosDirected

NextDirected ==
    \/ \E o \in Ops : get_state_response(o)
    \/ \E o \in Ops : ping(o)
    \/ \E o \in Ops : get_packet_response(o)
    \/ \E o \in Ops : wait_sender_receiver(o)
    \/ \E o \in Ops : OnCompletion(o)
    \/ \E o \in Ops : TimerFire(o)
    \/ \E d \in DatagramsDirected : datagram_received(d)

SpecDirected == InitDirected /\ [][NextDirected]_vars

\* ------------------------------------------------------------ sets
\* Runs of two set_power calls on the same light, started at any time,
\* with any Acknowledgement arriving at any time.
ScenariosSet == { {"s1", "s2"} }

DatagramsSet ==
    { Datagram(Light1[1], Light1[2], Light1[3], "Acknowledgement", s, 0) :
        s \in AckSeqs }
    \cup
    { Datagram(a[1], a[2], a[3], "Acknowledgement", s, 0) :
        a \in Sources, s \in StartSeqs }

InitSet == Init /\ active \in ScenariosSet

NextSet ==
    \/ \E o \in Ops : ack_set_packet(o)
    \/ \E o \in Ops : send_set_packet(o)
    \/ \E o \in Ops : wait_ack(o)
    \/ \E o \in Ops : ack_set_packet_resume(o)
    \/ \E o \in Ops : OnCompletion(o)
    \/ \E o \in Ops : TimerFire(o)
    \/ \E d \in DatagramsSet : datagram_received(d)

SpecSet == InitSet /\ [][NextSet]_vars

\* ------------------------------------------------------------ discovery
\* Runs of one discovery beside a get_light(host) of a host without target,
\* with StateService datagrams of two lights (one of them also from another
\* source port) arriving at any time.
ScenariosDiscover == { {"d1", "gl"} }

DatagramsDiscover ==
    { Datagram("h1", LIFX_PORT, "m1", "StateService", 0, LIFX_PORT),
      Datagram("h1", OtherPort, "m1", "StateService", 0, LIFX_PORT),
      Datagram("h2", LIFX_PORT, "m2", "StateService", 0, LIFX_PORT) }

InitDiscover == Init /\ active \in ScenariosDiscover

NextDiscover ==
    \/ \E o \in Ops : discover_lights(o)
    \/ \E o \in Ops : send_discover_packets(o)
    \/ \E o \in Ops : discover_lights_resume(o)
    \/ \E o \in Ops : ConsumerNext(o)
    \/ \E o \in Ops : get_state_response(o)
    \/ \E o \in Ops : get_packet_response(o)
    \/ \E o \in Ops : wait_sender_receiver(o)
    \/ \E o \in Ops : OnCompletion(o)
    \/ \E o \in Ops : TimerFire(o)
    \/ \E d \in DatagramsDiscover : datagram_received(d)

SpecDiscover == InitDiscover /\ [][NextDiscover]_vars

\* Runs of two discoveries started at any time, with the StateService
\* datagram of one light arriving at any time.
ScenariosTwoDiscover == { {"d1", "d2"} }

DatagramsTwoDiscover ==
    { Datagram("h1", LIFX_PORT, "m1", "StateService", 0, LIFX_PORT) }

InitTwoDiscover == Init /\ active \in ScenariosTwoDiscover

NextTwoDiscover ==
    \/ \E o \in Ops : discover_lights(o)
    \/ \E o \in Ops : send_discover_packets(o)
    \/ \E o \in Ops : discover_lights_resume(o)
    \/ \E o \in Ops : ConsumerNext(o)
    \/ \E o \in Ops : OnCompletion(o)
    \/ \E o \in Ops : TimerFire(o)
    \/ \E d \in DatagramsTwoDiscover : datagram_received(d)

SpecTwoDiscover == InitTwoDiscover /\ [][NextTwoDiscover]_vars

\* ------------------------------------------------------------ busy sets
\* Other operations of the backend call _get_seq SeqMod - 1 times while a
\* set operation sleeps after its first transmission: the counter comes
\* round to the sequence that transmission registered.
OtherAllocations(o) ==
    /\ Kind(o) = "set"
    /\ Len(sent[o]) = 1
    /\ sender[o].task = "pending" /\ sender[o].sleep = "pending"
    /\ seq = get_seq(sent[o][1]).next
    /\ seq' = (seq + SeqMod - 1) % SeqMod
    /\ UNCHANGED <<active, args, endpoint, connection, codec, unyielded, pc, outcome, result, sender, sent, recv, ack, ack_wait,
                   waiter, message_futures, ack_futures, seq_futures, ready,
                   discovered, yielded, matched, rx_error>>

\* Runs of one set_power call on a backend that is busy with other
\* operations, with any Acknowledgement arriving at any time.
ScenariosSetBusy == { {"s1"} }

InitSetBusy == Init /\ active \in ScenariosSetBusy

NextSetBusy ==
    \/ \E o \in Ops : ack_set_packet(o)
    \/ \E o \in Ops : send_set_packet(o)
    \/ \E o \in Ops : wait_ack(o)
    \/ \E o \in Ops : ack_set_packet_resume(o)
    \/ \E o \in Ops : OnCompletion(o)
    \/ \E o \in Ops : TimerFire(o)
    \/ \E o \in Ops : OtherAllocations(o)
    \/ \E d \in DatagramsSet : datagram_received(d)

SpecSetBusy == InitSetBusy /\ [][NextSetBusy]_vars

\* ------------------------------------------------------------ fairness
\* The event loop runs every callback it has scheduled and every sleep
\* elapses; nothing obliges a datagram to arrive or a caller to start an
\* operation.
LoopStep ==
    \/ \E o \in Ops : get_packet_response(o)
    \/ \E o \in Ops : wait_sender_receiver(o)
    \/ \E o \in Ops : send_set_packet(o)
    \/ \E o \in Ops : wait_ack(o)
    \/ \E o \in Ops : ack_set_packet_resume(o)
    \/ \E o \in Ops : OnCompletion(o)

Timers == \E o \in Ops : TimerFire(o)

ScenariosFair == ScenariosDirected \cup ScenariosSet

\* The datagrams of the fair runs: the light's reply to a query and to a
\* ping, and its Acknowledgements of the first two sequences allocated.
DatagramsFair ==
    { Datagram(Light1[1], Light1[2], Light1[3], mt, 0, 1) :
        mt \in {"StatePower", "EchoResponse"} }
    \cup
    { Datagram(Light1[1], Light1[2], Light1[3], "Acknowledgement", s, 0) :
        s \in { get_seq(s0).value : s0 \in StartSeqs }
              \cup { get_seq(s0).next : s0 \in StartSeqs } }

InitFair == Init /\ active \in ScenariosFair

NextFair ==
    \/ \E o \in Ops : get_state_response(o)
    \/ \E o \in Ops : ping(o)
    \/ \E o \in Ops : ack_set_packet(o)
    \/ LoopStep
    \/ Timers
    \/ \E d \in DatagramsFair : datagram_received(d)

SpecFair == InitFair /\ [][NextFair]_vars /\ WF_vars(LoopStep) /\ WF_vars(Timers)

\* ------------------------------------------------------------ collecting
\* Runs of one discovery, with the StateService datagrams of two lights
\* arriving at any time.
ScenariosCollect == { {"d1"} }

InitCollect == Init /\ active \in ScenariosCollect

NextCollect ==
    \/ \E o \in Ops : discover_lights(o)
    \/ \E o \in Ops : send_discover_packets(o)
    \/ \E o \in Ops : discover_lights_resume(o)
    \/ \E o \in Ops : ConsumerNext(o)
    \/ \E o \in Ops : OnCompletion(o)
    \/ \E o \in Ops : TimerFire(o)
    \/ \E d \in DatagramsDiscover : datagram_received(d)

SpecCollect == InitCollect /\ [][NextCollect]_vars

\* ------------------------------------------------------------ cancelling
\* Runs of one query, one ping or one set operation that its caller may
\* cancel while it is in flight, with the light's reply or
\* Acknowledgement arriving at any time.
ScenariosCancel == { {"q1"}, {"p1"}, {"s1"} }

DatagramsCancel ==
    { Datagram(Light1[1], Light1[2], Light1[3], mt, 0, 1) :
        mt \in {"StatePower", "EchoResponse"} }
    \cup
    { Datagram(Light1[1], Light1[2], Light1[3], "Acknowledgement", s, 0) :
        s \in { get_seq(s0).value : s0 \in StartSeqs } }

InitCancel == Init /\ active \in ScenariosCancel

NextCancel ==
    \/ \E o \in Ops : get_state_response(o)
    \/ \E o \in Ops : ping(o)
    \/ \E o \in Ops : ack_set_packet(o)
    \/ \E o \in Ops : cancel(o)
    \/ LoopStep
    \/ Timers
    \/ \E d \in DatagramsCancel : datagram_received(d)

SpecCancel == InitCancel /\ [][NextCancel]_vars

\* ------------------------------------------------------------ teardown
\* Runs of a query and a set operation on the same light, started at any
\* time, during which the endpoint may be torn down.
ScenariosTeardown == { {"q1", "s1"} }

InitTeardown == Init /\ active \in ScenariosTeardown

NextTeardown ==
    \/ \E o \in Ops : get_state_response(o)
    \/ \E o \in Ops : ack_set_packet(o)
    \/ connection_lost
    \/ LoopStep
    \/ Timers
    \/ \E d \in DatagramsCancel : datagram_received(d)

SpecTeardown == InitTeardown /\ [][NextTeardown]_vars

\* ------------------------------------------------------------ malformed
\* Runs of one query or one ping, with the light's well-formed reply and
\* malformed datagrams arriving at any time: one cut short within the
\* header, one with an unknown type code, one whose payload is cut short.
ScenariosMalformed == { {"q1"}, {"p1"} }

WellFormed ==
    { Datagram(Light1[1], Light1[2], Light1[3], mt, 0, 1) :
        mt \in {"StatePower", "EchoResponse"} }

DatagramsMalformed ==
    { Malformed(d, f) : d \in WellFormed, f \in {"short_header", "short_payload"} }
    \cup { Datagram(Light1[1], Light1[2], Light1[3], "Unknown", 0, 1) }

InitMalformed == Init /\ active \in ScenariosMalformed

NextMalformed ==
    \/ \E o \in Ops : get_state_response(o)
    \/ \E o \in Ops : ping(o)
    \/ \E o \in Ops : get_packet_response(o)
    \/ \E o \in Ops : wait_sender_receiver(o)
    \/ \E o \in Ops : OnCompletion(o)
    \/ \E o \in Ops : TimerFire(o)
    \/ \E d \in WellFormed \cup DatagramsMalformed : datagram_received(d)

SpecMalformed == InitMalformed /\ [][NextMalformed]_vars

\* ------------------------------------------------------------ constructed
\* Runs of one query or one set operation on a backend constructed with
\* any timeout and retry count, with the light's reply or Acknowledgement
\* arriving at any time.
ScenariosConstructed == { {"q1"}, {"s1"} }

InitConstructed ==
    /\ InitEngine
    /\ args \in [timeout : 1 .. MaxArg, tries : 1 .. MaxArg]
    /\ codec = NoCodec
    /\ active \in ScenariosConstructed

NextConstructed ==
    \/ \E o \in Ops : get_state_response(o)
    \/ \E o \in Ops : ack_set_packet(o)
    \/ LoopStep
    \/ Timers
    \/ \E d \in DatagramsCancel : datagram_received(d)

SpecConstructed == InitConstructed /\ [][NextConstructed]_vars

\* ------------------------------------------------------------ endpoint
\* _get_endpoint: the first call creates the task that runs
\* create_datagram_endpoint and stores it; every call returns the stored
\* task.
get_endpoint(e) == IF e = "None" THEN "pending" ELSE e

\* `transport, protocol = await self._get_endpoint()` at the head of an
\* operation, while the endpoint is not there: the operation's task is
\* suspended on the shared endpoint task; on a cancelled endpoint task the
\* await raises CancelledError at once. (With the endpoint there the await
\* returns without suspending and the operation goes on.)
await_endpoint(o) ==
    /\ o \in active
    /\ pc[o] = "idle"
    /\ endpoint # "done"
    /\ endpoint' = get_endpoint(endpoint)
    /\ IF endpoint = "cancelled"
       THEN /\ pc' = [pc EXCEPT ![o] = "done"]
            /\ outcome' = [outcome EXCEPT ![o] = "CancelledError"]
       ELSE /\ pc' = [pc EXCEPT ![o] = "await_endpoint"]
            /\ UNCHANGED outcome
    /\ UNCHANGED <<active, args, connection, codec, unyielded, result, sender, sent,
                   recv, ack, ack_wait, waiter, message_futures, ack_futures,
                   seq_futures, seq, ready, discovered, yielded, matched, rx_error>>

\* create_datagram_endpoint returns: the endpoint task is done, and the
\* operations suspended on it go on where an operation goes on that finds
\* the endpoint there.
endpoint_created ==
    /\ endpoint = "pending"
    /\ endpoint' = "done"
    /\ pc' = [o \in Ops |-> IF pc[o] = "await_endpoint" THEN "idle" ELSE pc[o]]
    /\ UNCHANGED <<active, args, connection, codec, unyielded, outcome, result, sender,
                   sent, recv, ack, ack_wait, waiter, message_futures, ack_futures,
                   seq_futures, seq, ready, discovered, yielded, matched, rx_error>>

\* The caller cancels the task of an operation that is suspended on the
\* endpoint task: Task.cancel() cancels the future the task waits for,
\* which is the shared endpoint task, and the cancellation of that task
\* ends every await of it with CancelledError. waiter[o] records which
\* operation the caller cancelled.
cancel_awaiting(o) ==
    /\ pc[o] = "await_endpoint"
    /\ endpoint' = "cancelled"
    /\ waiter' = [waiter EXCEPT ![o] = "cancelled"]
    /\ pc' = [x \in Ops |-> IF pc[x] = "await_endpoint" THEN "done" ELSE pc[x]]
    /\ outcome' = [x \in Ops |-> IF pc[x] = "await_endpoint" THEN "CancelledError"
                                 ELSE outcome[x]]
    /\ UNCHANGED <<active, args, connection, codec, unyielded, result, sender, sent,
                   recv, ack, ack_wait, message_futures, ack_futures,
                   seq_futures, seq, ready, discovered, yielded, matched, rx_error>>

\* Runs of a query and a set operation on a backend that has no endpoint
\* yet, started at any time; the caller of either may cancel it while it
\* waits for the endpoint or in asyncio.wait(); the light does not answer.
ScenariosEndpoint == { {"q1", "s1"} }

InitEndpoint ==
    /\ InitTables
    /\ endpoint = "None"
    /\ args = [timeout |-> 3, tries |-> 3]
    /\ codec = NoCodec
    /\ active \in ScenariosEndpoint

NextEndpoint ==
    \/ \E o \in Ops : await_endpoint(o)
    \/ endpoint_created
    \/ \E o \in Ops : cancel_awaiting(o)
    \/ \E o \in Ops : endpoint = "done" /\ get_state_response(o)
    \/ \E o \in Ops : endpoint = "done" /\ ack_set_packet(o)
    \/ \E o \in Ops : cancel(o)
    \/ LoopStep
    \/ Timers

SpecEndpoint == InitEndpoint /\ [][NextEndpoint]_vars

\* ------------------------------------------------------------ acknowledging
\* Runs of two set operations, or of a query beside a set operation, on
\* the same light, started at any time, with datagrams arriving at any
\* time: Acknowledgements of the first two sequences allocated from the
\* light, Acknowledgements of the first from another host, port and
\* target, and the light's StatePower reply.
ScenariosAck == { {"s1", "s2"}, {"q1", "s1"} }

DatagramsAck ==
    { Datagram(a[1], a[2], a[3], "Acknowledgement", get_seq(s0).value, 0) :
        a \in Sources, s0 \in StartSeqs }
    \cup
    { Datagram(Light1[1], Light1[2], Light1[3], "Acknowledgement", get_seq(s0).next, 0) :
        s0 \in StartSeqs }
    \cup
    { Datagram(Light1[1], Light1[2], Light1[3], "StatePower", 0, 1) }

InitAck == Init /\ active \in ScenariosAck

NextAck ==
    \/ \E o \in Ops : get_state_response(o)
    \/ \E o \in Ops : ack_set_packet(o)
    \/ LoopStep
    \/ Timers
    \/ \E d \in DatagramsAck : datagram_received(d)

SpecAck == InitAck /\ [][NextAck]_vars

\* ------------------------------------------------------------ discarding
\* Runs of one discovery beside one set operation, with datagrams arriving
\* at any time: the StateService datagrams of two lights, an EchoResponse
\* nobody asked for, and an Acknowledgement of the light that carries the
\* sequence before the first allocated.
ScenariosDiscard == { {"d1", "s1"} }

DatagramsDiscard ==
    { Datagram("h1", LIFX_PORT, "m1", "StateService", 0, LIFX_PORT),
      Datagram("h2", LIFX_PORT, "m2", "StateService", 0, LIFX_PORT),
      Datagram("h2", LIFX_PORT, "m2", "EchoResponse", 0, 1) }
    \cup
    { Datagram(Light1[1], Light1[2], Light1[3], "Acknowledgement",
               (s0 + SeqMod - 1) % SeqMod, 0) : s0 \in StartSeqs }

InitDiscard == Init /\ active \in ScenariosDiscard

NextDiscard ==
    \/ \E o \in Ops : discover_lights(o)
    \/ \E o \in Ops : send_discover_packets(o)
    \/ \E o \in Ops : discover_lights_resume(o)
    \/ \E o \in Ops : ConsumerNext(o)
    \/ \E o \in Ops : ack_set_packet(o)
    \/ \E o \in Ops : send_set_packet(o)
    \/ \E o \in Ops : wait_ack(o)
    \/ \E o \in Ops : ack_set_packet_resume(o)
    \/ \E o \in Ops : OnCompletion(o)
    \/ \E o \in Ops : TimerFire(o)
    \/ \E d \in DatagramsDiscard : datagram_received(d)

SpecDiscard == InitDiscard /\ [][NextDiscard]_vars

\* ------------------------------------------------------------ codec
\* The bitfield codec of src/licht/utils.py. A byte string is a sequence of
\* numbers in 0 .. 255; a record value is a function from the names of the
\* non-reserved fields to their values.
RESERVED == "RESERVED"

Zeros(n) == [i \in 1 .. n |-> 0]

\* value[:n] of a byte string.
Take(b, n) == SubSeq(b, 1, IF n < Len(b) THEN n ELSE Len(b))

\* The rest of an iterator after islice(it, n) has been consumed.
Drop(b, n) == SubSeq(b, (IF n < Len(b) THEN n ELSE Len(b)) + 1, Len(b))

\* A to_bytes that writes the most significant byte first.
RECURSIVE int_to_bytes_big(_, _)
int_to_bytes_big(n, length) ==
    IF length = 0 THEN <<>>
    ELSE Append(int_to_bytes_big(n \div 256, length - 1), n % 256)

\* int.to_bytes(length, 'little') of a number that fits, and
\* int.from_bytes(b, 'little').
RECURSIVE int_to_bytes(_, _)
int_to_bytes(n, length) ==
    IF length = 0 THEN <<>>
    ELSE <<n % 256>> \o int_to_bytes(n \div 256, length - 1)

RECURSIVE int_from_bytes(_)
int_from_bytes(b) ==
    IF b = <<>> THEN 0 ELSE Head(b) + 256 * int_from_bytes(Tail(b))

\* FieldType.to_bytes_bytes, to_bytes_int (signed=True), to_bytes_uint,
\* to_bytes_bool.
to_bytes_bytes(value, length) == value \o Zeros(length - Len(value))

to_bytes_int(value, length) == int_to_bytes(value % (256 ^ length), length)

to_bytes_uint(value, length) == int_to_bytes(value, length)

to_bytes_bool(value, length) == int_to_bytes(IF value THEN 1 ELSE 0, length)

FieldType_to_bytes(type, value, length) ==
    CASE type = "bytes" -> to_bytes_bytes(value, length)
      [] type = "int" -> to_bytes_int(value, length)
      [] type = "uint" -> to_bytes_uint(value, length)
      [] type = "bool" -> to_bytes_bool(value, length)

\* FieldType.from_bytes_bytes, from_bytes_int (signed=True),
\* from_bytes_uint, from_bytes_bool.
from_bytes_bytes(value) == value

from_bytes_int(value) ==
    LET n == int_from_bytes(value) IN
    IF value # <<>> /\ n >= 2 ^ (8 * Len(value) - 1)
    THEN n - 2 ^ (8 * Len(value)) ELSE n

from_bytes_uint(value) == int_from_bytes(value)

from_bytes_bool(value) == int_from_bytes(value) # 0

FieldType_from_bytes(type, value) ==
    CASE type = "bytes" -> from_bytes_bytes(value)
      [] type = "int" -> from_bytes_int(value)
      [] type = "uint" -> from_bytes_uint(value)
      [] type = "bool" -> from_bytes_bool(value)

\* The schemas of the runs: those of src/tests.py (the widths of
\* SimpleBitfield and FullBitfield made smaller, their float fields left
\* out), ReservedSimpleBitfield and ReservedFullBitfield as they are, and
\* schemas with a nested record in each path, with a signed field inside a
\* group and with boolean fields wider than one bit.
\* The schemas of the packet header and of two payloads (lifx.py). The
\* fields of more than 16 bits are made narrower: source 32 -> 16, target
\* 64 -> 16, the reserved fields of 48, 64 and 16 bits -> 8, the echo
\* payload 512 -> 16.
PacketBitfields ==
    { "Frame", "FrameAddress", "ProtocolHeader", "Header", "SetPower", "EchoRequest" }

Bitfields ==
    PacketBitfields \cup
    { "SimpleBitfield", "FullBitfield", "ReservedSimpleBitfield",
      "ReservedFullBitfield", "Inner", "NestedSimple", "NestedFull",
      "SignedFull", "SignedLast", "FlagSimple", "FlagFull", "PackedPair",
      "BytesFull" }

RECURSIVE fields(_)
RECURSIVE total_bytes(_)

\* Field.__new__: the width of a nested record is that of its schema.
Field(name, bits, type) ==
    [name |-> name,
     bits |-> IF type \in Bitfields THEN total_bytes(type) * 8 ELSE bits,
     type |-> type]

fields(cls) ==
    CASE cls = "SimpleBitfield" ->
            << Field("foo", 16, "int"), Field("bar", 16, "bytes") >>
      [] cls = "FullBitfield" ->
            << Field("foo", 1, "bool"), Field("bar", 3, "uint"),
               Field("baz", 4, "uint"), Field("fiz", 8, "uint") >>
      [] cls = "ReservedSimpleBitfield" ->
            << Field(RESERVED, 16, "bytes"), Field("foo", 16, "bytes"),
               Field(RESERVED, 8, "bytes"), Field("bar", 16, "bytes") >>
      [] cls = "ReservedFullBitfield" ->
            << Field(RESERVED, 4, "bytes"), Field("foo", 12, "uint"),
               Field(RESERVED, 5, "bytes"), Field("bar", 3, "uint") >>
      [] cls = "Inner" ->
            << Field("hi", 4, "uint"), Field("lo", 4, "uint") >>
      [] cls = "NestedSimple" ->
            << Field("inner", 0, "Inner"), Field("tail", 8, "uint") >>
      [] cls = "NestedFull" ->
            << Field("a", 4, "uint"), Field("inner", 0, "Inner"),
               Field("b", 4, "uint") >>
      [] cls = "SignedFull" ->
            << Field("a", 4, "int"), Field("b", 12, "uint") >>
      [] cls = "SignedLast" ->
            << Field("n", 4, "uint"), Field("a", 4, "int") >>
      [] cls = "FlagSimple" ->
            << Field("flag", 8, "bool"), Field("n", 8, "uint") >>
      [] cls = "FlagFull" ->
            << Field("flag", 2, "bool"), Field("n", 6, "uint") >>
      [] cls = "PackedPair" ->
            << Field("a", 4, "uint"), Field("b", 12, "uint") >>
      [] cls = "BytesFull" ->
            << Field("tag", 4, "uint"), Field("raw", 16, "bytes"),
               Field("pad", 4, "uint") >>
      [] cls = "Frame" ->
            << Field("size", 16, "uint"), Field("origin", 2, "uint"),
               Field("tagged", 1, "bool"), Field("addressable", 1, "bool"),
               Field("protocol", 12, "uint"), Field("source", 16, "bytes") >>
      [] cls = "FrameAddress" ->
            << Field("target", 16, "bytes"), Field(RESERVED, 8, "bytes"),
               Field(RESERVED, 6, "bytes"), Field("ack_required", 1, "bool"),
               Field("res_required", 1, "bool"), Field("sequence", 8, "uint") >>
      [] cls = "ProtocolHeader" ->
            << Field(RESERVED, 8, "bytes"), Field("type", 16, "uint"),
               Field(RESERVED, 8, "bytes") >>
      [] cls = "Header" ->
            << Field("frame", 0, "Frame"), Field("frame_address", 0, "FrameAddress"),
               Field("protocol_header", 0, "ProtocolHeader") >>
      [] cls = "SetPower" ->
            << Field("level", 16, "uint") >>
      [] cls = "EchoRequest" ->
            << Field("payload", 16, "bytes") >>

RECURSIVE SumBits(_)
SumBits(fs) == IF fs = <<>> THEN 0 ELSE Head(fs).bits + SumBits(Tail(fs))

\* BitfieldMeta.__new__: total_bytes, and the choice of the codec path.
total_bytes(cls) == SumBits(fields(cls)) \div 8

IsSimple(cls) == \A i \in DOMAIN fields(cls) : fields(cls)[i].bits % 8 = 0

NumBytes(field) == (field.bits - 1) \div 8 + 1

RECURSIVE to_bytes(_, _)

\* A _get_value that emits nothing for a reserved field.
get_value_no_reserved(data, field) ==
    IF field.name = RESERVED THEN <<>>
    ELSE IF field.type \in Bitfields THEN to_bytes(field.type, data[field.name])
    ELSE FieldType_to_bytes(field.type, data[field.name], NumBytes(field))

\* Bitfield._get_value
get_value(data, field) ==
    IF field.name = RESERVED THEN Zeros(NumBytes(field))
    ELSE IF field.type \in Bitfields THEN to_bytes(field.type, data[field.name])
    ELSE FieldType_to_bytes(field.type, data[field.name], NumBytes(field))

\* Bitfield._to_bytes_simple
RECURSIVE to_bytes_simple(_, _)
to_bytes_simple(fs, data) ==
    IF fs = <<>> THEN <<>>
    ELSE get_value(data, Head(fs)) \o to_bytes_simple(Tail(fs), data)

\* A packing that does not cut the value to the width of its field.
ShiftOrUnmasked(packed_val, val, bits) == packed_val * (2 ^ bits) + val

\* packed_val <<= bits; packed_val |= val & ((1 << bits) - 1)
ShiftOr(packed_val, val, bits) == packed_val * (2 ^ bits) + (val % (2 ^ bits))

\* The inner loop of _to_bytes_full over the pack of a group.
RECURSIVE PackedVal(_, _)
PackedVal(pack, packed_val) ==
    IF pack = <<>> THEN packed_val
    ELSE LET val == int_from_bytes(Take(Head(pack).val, NumBytes(Head(pack))))
         IN PackedVal(Tail(pack), ShiftOr(packed_val, val, Head(pack).bits))

\* Bitfield._to_bytes_full: the loop over the fields, from the state
\* (byte_data, packed_bits, pack) it has reached.
RECURSIVE to_bytes_full(_, _, _, _, _)
to_bytes_full(fs, data, byte_data, packed_bits, pack) ==
    IF fs = <<>> THEN byte_data
    ELSE LET bits == packed_bits + Head(fs).bits
             pk == Append(pack, [val |-> get_value(data, Head(fs)),
                                 bits |-> Head(fs).bits])
         IN IF bits % 8 = 0
            THEN to_bytes_full(Tail(fs), data,
                               byte_data \o int_to_bytes(PackedVal(pk, 0), bits \div 8),
                               0, <<>>)
            ELSE to_bytes_full(Tail(fs), data, byte_data, bits, pk)

to_bytes(cls, data) ==
    IF IsSimple(cls) THEN to_bytes_simple(fields(cls), data)
    ELSE to_bytes_full(fields(cls), data, <<>>, 0, <<>>)

RECURSIVE from_bytes(_, _)

\* field.type.from_bytes(value): of a FieldType, or of a nested schema.
type_from_bytes(type, value) ==
    IF type \in Bitfields THEN from_bytes(type, value).data
    ELSE FieldType_from_bytes(type, value)

\* Bitfield._from_bytes_simple: the loop over the fields.
RECURSIVE from_bytes_simple(_, _, _)
from_bytes_simple(fs, bytes_data, bitfield_data) ==
    IF fs = <<>> THEN bitfield_data
    ELSE LET field_bytes == Take(bytes_data, Head(fs).bits \div 8)
             rest == Drop(bytes_data, Head(fs).bits \div 8)
         IN from_bytes_simple(
                Tail(fs), rest,
                IF Head(fs).name = RESERVED THEN bitfield_data
                ELSE Put(bitfield_data, Head(fs).name,
                         type_from_bytes(Head(fs).type, field_bytes)))

\* The inner loop of _from_bytes_full over reversed(pack).
RECURSIVE Unpack(_, _, _)
Unpack(pack, value, bitfield_data) ==
    IF pack = <<>> THEN bitfield_data
    ELSE LET pack_field == pack[Len(pack)]
             int_val == value % (2 ^ pack_field.bits)
             bytes_val == int_to_bytes(int_val, NumBytes(pack_field))
         IN Unpack(SubSeq(pack, 1, Len(pack) - 1),
                   value \div (2 ^ pack_field.bits),
                   IF pack_field.name = RESERVED THEN bitfield_data
                   ELSE Put(bitfield_data, pack_field.name,
                            type_from_bytes(pack_field.type, bytes_val)))

\* Bitfield._from_bytes_full: the loop over the fields.
RECURSIVE from_bytes_full(_, _, _, _, _)
from_bytes_full(fs, bytes_data, bitfield_data, packed_bits, pack) ==
    IF fs = <<>> THEN bitfield_data
    ELSE LET bits == packed_bits + Head(fs).bits
             pk == Append(pack, Head(fs))
         IN IF bits % 8 = 0
            THEN from_bytes_full(
                     Tail(fs), Drop(bytes_data, bits \div 8),
                     Unpack(pk, int_from_bytes(Take(bytes_data, bits \div 8)),
                            bitfield_data),
                     0, <<>>)
            ELSE from_bytes_full(Tail(fs), bytes_data, bitfield_data, bits, pk)

\* A from_bytes that wants more than total_bytes bytes.
from_bytes_more(cls, data) ==
    IF Len(data) <= total_bytes(cls) THEN [error |-> "ValueError"]
    ELSE [error |-> "none",
          data |-> IF IsSimple(cls) THEN from_bytes_simple(fields(cls), data, <<>>)
                   ELSE from_bytes_full(fields(cls), data, <<>>, 0, <<>>)]

\* from_bytes: ValueError('missing data') on fewer than total_bytes bytes,
\* else the record the path of the schema parses.
from_bytes(cls, data) ==
    IF Len(data) < total_bytes(cls) THEN [error |-> "ValueError"]
    ELSE [error |-> "none",
          data |-> IF IsSimple(cls) THEN from_bytes_simple(fields(cls), data, <<>>)
                   ELSE from_bytes_full(fields(cls), data, <<>>, 0, <<>>)]

\* The values of a field in the runs. Integers: the ends and the middle of
\* the range of the width. Raw bytes: every string of the width over
\* ByteValues, one that is a byte short and one that is a byte long.
ByteValues == {0, 113, 255}

UintValues(w) ==
    {0, 1, 2 ^ (w - 1), 2 ^ w - 1} \cup {x \in {3, 13, 3456} : x < 2 ^ w}

IntValues(w) == {-(2 ^ (w - 1)), -1, 0, 1, 2 ^ (w - 1) - 1}

BytesValues(n) ==
    [1 .. n -> ByteValues] \cup {[i \in 1 .. n - 1 |-> 113], [i \in 1 .. n + 1 |-> 113]}

RECURSIVE Records(_)

FieldValues(field) ==
    CASE field.type = "uint" -> UintValues(field.bits)
      [] field.type = "int" -> IntValues(field.bits)
      [] field.type = "bool" -> BOOLEAN
      [] field.type = "bytes" -> BytesValues(field.bits \div 8)
      [] OTHER -> Records(fields(field.type))

\* The record values Bitfield.__init__ accepts for a list of fields: one
\* value for every non-reserved name.
Records(fs) ==
    IF fs = <<>> THEN {<<>>}
    ELSE IF Head(fs).name = RESERVED THEN Records(Tail(fs))
    ELSE { Put(r, Head(fs).name, x) : r \in Records(Tail(fs)), x \in FieldValues(Head(fs)) }

\* The data of test_reserved_simple and test_reserved_full.
TestData(cls) ==
    CASE cls = "ReservedSimpleBitfield" -> {<<122, 122, 113, 113, 122, 97, 97>>}
      [] cls = "ReservedFullBitfield" -> {<<128, 157, 171>>}
      [] OTHER -> {}

\* The byte strings handed to from_bytes: the empty one and those of
\* total_bytes bytes, of one byte less and of one byte more, over
\* ByteValues, and the data of the tests.
ByteStrings(cls) ==
    UNION { [1 .. n -> ByteValues] :
              n \in {0} \cup (total_bytes(cls) - 1 .. total_bytes(cls) + 1) }
        \cup TestData(cls)

\* A run of the codec takes a record value through to_bytes and back
\* through from_bytes, or a byte string through from_bytes and back
\* through to_bytes.
CodecInput(cls) ==
    \/ \E v \in Records(fields(cls)) : codec = [pc |-> "value", cls |-> cls, v |-> v]
    \/ \E b \in ByteStrings(cls) : codec = [pc |-> "bytes", cls |-> cls, b |-> b]

Serialize ==
    /\ codec.pc \in {"value", "parsed"}
    /\ codec' = IF codec.pc = "value"
                THEN [pc |-> "serialized", cls |-> codec.cls, v |-> codec.v,
                      b |-> to_bytes(codec.cls, codec.v)]
                ELSE [pc |-> "reserialized", cls |-> codec.cls, b |-> codec.b,
                      v |-> codec.v, b2 |-> to_bytes(codec.cls, codec.v)]
    /\ UNCHANGED <<active, args, endpoint, connection, unyielded, pc, outcome, result, sender,
                   sent, recv, ack, ack_wait, waiter, message_futures, ack_futures,
                   seq_futures, seq, ready, discovered, yielded, matched, rx_error>>

Parse ==
    /\ codec.pc \in {"bytes", "serialized"}
    /\ LET r == from_bytes(codec.cls, codec.b) IN
       codec' = IF codec.pc = "bytes"
                THEN IF r.error = "none"
                     THEN [pc |-> "parsed", cls |-> codec.cls, b |-> codec.b,
                           v |-> r.data]
                     ELSE [pc |-> "failed", cls |-> codec.cls, b |-> codec.b,
                           error |-> r.error]
                ELSE [pc |-> "reparsed", cls |-> codec.cls, v |-> codec.v,
                      b |-> codec.b, r |-> r]
    /\ UNCHANGED <<active, args, endpoint, connection, unyielded, pc, outcome, result, sender,
                   sent, recv, ack, ack_wait, waiter, message_futures, ack_futures,
                   seq_futures, seq, ready, discovered, yielded, matched, rx_error>>

InitCodec ==
    /\ InitEngine
    /\ args = [timeout |-> 3, tries |-> 3]
    /\ active = {}
    /\ \E cls \in Bitfields \ PacketBitfields : CodecInput(cls)

NextCodec == Serialize \/ Parse

SpecCodec == InitCodec /\ [][NextCodec]_vars

\* ------------------------------------------------------------ records
\* BitfieldMeta.__new__: field_key_list, the names of the non-reserved
\* fields in schema order, and field_keys, their set.
RECURSIVE field_key_list(_)
field_key_list(fs) ==
    IF fs = <<>> THEN <<>>
    ELSE IF Head(fs).name = RESERVED THEN field_key_list(Tail(fs))
    ELSE <<Head(fs).name>> \o field_key_list(Tail(fs))

field_keys(cls) ==
    { field_key_list(fields(cls))[j] : j \in 1 .. Len(field_key_list(fields(cls))) }

\* zip(self.field_key_list, args) as a dict.
Zip(keys, vals) ==
    LET n == IF Len(keys) < Len(vals) THEN Len(keys) ELSE Len(vals) IN
    [k \in { keys[j] : j \in 1 .. n } |->
        vals[CHOOSE j \in 1 .. n : keys[j] = k /\ \A i \in j + 1 .. n : keys[i] # k]]

\* A constructor that does not count its positional arguments.
Bitfield_init_uncounted(cls, posargs, kwargs) ==
    IF posargs # <<>> /\ DOMAIN kwargs # {}
    THEN [error |-> "ValueError"]
    ELSE LET kw == IF posargs # <<>>
                   THEN Zip(field_key_list(fields(cls)), posargs)
                   ELSE kwargs
         IN IF DOMAIN kw # field_keys(cls)
            THEN [error |-> "ValueError"]
            ELSE [error |-> "none", data |-> kw]

\* Bitfield.__init__(*args, **kwargs): the record's _data, or ValueError.
Bitfield_init(cls, posargs, kwargs) ==
    IF posargs # <<>> /\ DOMAIN kwargs # {}
    THEN [error |-> "ValueError"]
    ELSE IF posargs # <<>> /\ Len(posargs) # Len(field_key_list(fields(cls)))
    THEN [error |-> "ValueError"]
    ELSE LET kw == IF posargs # <<>>
                   THEN Zip(field_key_list(fields(cls)), posargs)
                   ELSE kwargs
         IN IF DOMAIN kw # field_keys(cls)
            THEN [error |-> "ValueError"]
            ELSE [error |-> "none", data |-> kw]

\* Bitfield.__setitem__(key, value): the _data afterwards, or ValueError.
Bitfield_setitem(cls, data, key, value) ==
    IF key \notin field_keys(cls)
    THEN [error |-> "ValueError", data |-> data]
    ELSE [error |-> "none", data |-> Put(data, key, value)]

\* The calls of the runs: up to MaxPos positional arguments and keyword
\* arguments over the names of the schema and one name that is not in it.
MaxPos == 3

RecordSchemas == {"ReservedFullBitfield", "PackedPair", "FlagSimple"}

ArgValues == {1, 2}

KeyNames(cls) == field_keys(cls) \cup {"zzz"}

ArgLists == UNION { [1 .. n -> ArgValues] : n \in 0 .. MaxPos }

KwArgs(cls) == UNION { [S -> ArgValues] : S \in SUBSET KeyNames(cls) }

Construct ==
    /\ codec.pc = "call"
    /\ LET r == Bitfield_init(codec.cls, codec.posargs, codec.kwargs) IN
       codec' = IF r.error = "none"
                THEN [pc |-> "constructed", cls |-> codec.cls, posargs |-> codec.posargs,
                      kwargs |-> codec.kwargs, data |-> r.data]
                ELSE [pc |-> "rejected", cls |-> codec.cls, posargs |-> codec.posargs,
                      kwargs |-> codec.kwargs, error |-> r.error]
    /\ UNCHANGED <<active, args, endpoint, connection, unyielded, pc, outcome, result, sender,
                   sent, recv, ack, ack_wait, waiter, message_futures, ack_futures,
                   seq_futures, seq, ready, discovered, yielded, matched, rx_error>>

SetItem ==
    /\ codec.pc = "constructed"
    /\ \E key \in KeyNames(codec.cls), value \in ArgValues :
          LET r == Bitfield_setitem(codec.cls, codec.data, key, value) IN
          codec' = [pc |-> "set", cls |-> codec.cls, posargs |-> codec.posargs,
                    kwargs |-> codec.kwargs, before |-> codec.data,
                    key |-> key, value |-> value,
                    error |-> r.error, data |-> r.data]
    /\ UNCHANGED <<active, args, endpoint, connection, unyielded, pc, outcome, result, sender,
                   sent, recv, ack, ack_wait, waiter, message_futures, ack_futures,
                   seq_futures, seq, ready, discovered, yielded, matched, rx_error>>

InitRecord ==
    /\ InitEngine
    /\ args = [timeout |-> 3, tries |-> 3]
    /\ active = {}
    /\ \E cls \in RecordSchemas :
          \E a \in ArgLists, k \in KwArgs(cls) :
              codec = [pc |-> "call", cls |-> cls, posargs |-> a, kwargs |-> k]

NextRecord == Construct \/ SetItem

SpecRecord == InitRecord /\ [][NextRecord]_vars

\* ------------------------------------------------------------ packets
\* MessageType(IntEnum): the codes of the payloads of the runs, and the
\* message_type that register() gives a payload schema.
GetService == 2
GetPower == 20
SetPower == 21
EchoRequest == 58

message_type(cls) ==
    CASE cls = "SetPower" -> SetPower
      [] cls = "EchoRequest" -> EchoRequest

\* The payload argument of _make_packet: a MessageType, or a record of a
\* registered schema. msg_type and the payload bytes of lines 387-394.
msg_type_of(payload) ==
    IF payload.kind = "MessageType" THEN payload.code ELSE message_type(payload.cls)

payload_bytes(payload) ==
    IF payload.kind = "MessageType" THEN <<>> ELSE to_bytes(payload.cls, payload.data)

\* A _make_packet whose size field counts the header alone.
make_packet_header_size(source_id, target_addr, packet_seq, payload, ack_required, res_required) ==
    LET target == IF target_addr.none THEN <<0>> ELSE target_addr.bytes
        tagged == target_addr.none
        frame == Bitfield_init("Frame", <<0, 0, tagged, TRUE, 1024, source_id>>, <<>>).data
        faddr == Bitfield_init("FrameAddress",
                               <<target, ack_required, res_required, packet_seq>>, <<>>).data
        header == Bitfield_init("ProtocolHeader", <<msg_type_of(payload)>>, <<>>).data
        size == total_bytes("Frame") + total_bytes("FrameAddress")
                  + total_bytes("ProtocolHeader")
    IN to_bytes("Frame", Bitfield_setitem("Frame", frame, "size", size).data)
         \o to_bytes("FrameAddress", faddr) \o to_bytes("ProtocolHeader", header)
         \o payload_bytes(payload)

\* LifxBackend._make_packet. The flags tagged, addressable, int(ack) and
\* int(res), which the code passes as 1 or 0, are their truth values here.
make_packet(source_id, target_addr, packet_seq, payload, ack_required, res_required) ==
    LET target == IF target_addr.none THEN <<0>> ELSE target_addr.bytes
        tagged == target_addr.none
        frame == Bitfield_init("Frame", <<0, 0, tagged, TRUE, 1024, source_id>>, <<>>).data
        faddr == Bitfield_init("FrameAddress",
                               <<target, ack_required, res_required, packet_seq>>, <<>>).data
        header == Bitfield_init("ProtocolHeader", <<msg_type_of(payload)>>, <<>>).data
        size == total_bytes("Frame") + total_bytes("FrameAddress")
                  + total_bytes("ProtocolHeader") + Len(payload_bytes(payload))
    IN to_bytes("Frame", Bitfield_setitem("Frame", frame, "size", size).data)
         \o to_bytes("FrameAddress", faddr) \o to_bytes("ProtocolHeader", header)
         \o payload_bytes(payload)

\* The arguments of the runs: source identifiers of the width of the
\* source field, no target or a MAC shorter than or as wide as the target
\* field, sequence numbers at the ends of a byte, and four payloads.
SourceIds == {<<108, 99>>, <<255, 255>>}

Targets ==
    {[none |-> TRUE, bytes |-> <<>>], [none |-> FALSE, bytes |-> <<1>>],
     [none |-> FALSE, bytes |-> <<255, 255>>]}

PacketSeqs == {0, 1, 255}

PacketInput(payload) ==
    \E source_id \in SourceIds, target_addr \in Targets, packet_seq \in PacketSeqs,
       ack_required \in BOOLEAN, res_required \in BOOLEAN :
        codec = [pc |-> "make", source_id |-> source_id, target_addr |-> target_addr,
                 seq |-> packet_seq, payload |-> payload,
                 ack |-> ack_required, res |-> res_required]

MakePacket ==
    /\ codec.pc = "make"
    /\ codec' = [codec EXCEPT !.pc = "packet"]
                  @@ [packet |-> make_packet(codec.source_id, codec.target_addr, codec.seq,
                                             codec.payload, codec.ack, codec.res)]
    /\ UNCHANGED <<active, args, endpoint, connection, unyielded, pc, outcome, result, sender,
                   sent, recv, ack, ack_wait, waiter, message_futures, ack_futures,
                   seq_futures, seq, ready, discovered, yielded, matched, rx_error>>

\* Header.from_bytes(packet), as _parse_response does.
ParseHeader ==
    /\ codec.pc = "packet"
    /\ codec' = [codec EXCEPT !.pc = "header"]
                  @@ [header |-> from_bytes("Header", codec.packet)]
    /\ UNCHANGED <<active, args, endpoint, connection, unyielded, pc, outcome, result, sender,
                   sent, recv, ack, ack_wait, waiter, message_futures, ack_futures,
                   seq_futures, seq, ready, discovered, yielded, matched, rx_error>>

InitPacket ==
    /\ InitEngine
    /\ args = [timeout |-> 3, tries |-> 3]
    /\ active = {}
    /\ \/ \E code \in {GetService, GetPower} :
             PacketInput([kind |-> "MessageType", code |-> code])
       \/ \E level \in {0, 65535} :
             PacketInput([kind |-> "Bitfield", cls |-> "SetPower",
                          data |-> [level |-> level]])
       \/ \E payload \in {<<1, 2>>, <<7>>} :
             PacketInput([kind |-> "Bitfield", cls |-> "EchoRequest",
                          data |-> [payload |-> payload]])

NextPacket == MakePacket \/ ParseHeader

SpecPacket == InitPacket /\ [][NextPacket]_vars

\* ------------------------------------------------------------ requests
\* The packet _send_set_packet builds for a retry.
packet_of_set(source_id, target_addr, packet_seq, set_packet) ==
    make_packet(source_id, target_addr, packet_seq, set_packet, TRUE, FALSE)

\* A get_packet that asks for a response.
get_packet_res(source_id, target_addr, packet_seq, get_type) ==
    make_packet(source_id, target_addr, packet_seq,
                [kind |-> "MessageType", code |-> get_type], FALSE, TRUE)

\* get_packet of _send_state_request: ack and res are left at their
\* defaults.
get_packet(source_id, target_addr, packet_seq, get_type) ==
    make_packet(source_id, target_addr, packet_seq,
                [kind |-> "MessageType", code |-> get_type], FALSE, FALSE)

\* The calls of the runs: a set operation with a SetPower record, directed
\* at a light by its MAC, and a query with GetPower or GetService,
\* directed at a light by its MAC or at a host without one.
RequestInput(op, targets, payloads) ==
    \E source_id \in SourceIds, target_addr \in targets, packet_seq \in PacketSeqs,
       payload \in payloads :
        codec = [pc |-> "request", op |-> op, source_id |-> source_id,
                 target_addr |-> target_addr, seq |-> packet_seq, payload |-> payload]

\* The sendto of a step of _send_set_packet.
SendSetPacket ==
    /\ codec.pc = "request" /\ codec.op = "set"
    /\ codec' = [codec EXCEPT !.pc = "packet"]
                  @@ [packet |-> packet_of_set(codec.source_id, codec.target_addr,
                                               codec.seq, codec.payload)]
    /\ UNCHANGED <<active, args, endpoint, connection, unyielded, pc, outcome, result, sender,
                   sent, recv, ack, ack_wait, waiter, message_futures, ack_futures,
                   seq_futures, seq, ready, discovered, yielded, matched, rx_error>>

\* The sendto of a step of _get_packet_response for a query.
SendStateRequest ==
    /\ codec.pc = "request" /\ codec.op = "query"
    /\ codec' = [codec EXCEPT !.pc = "packet"]
                  @@ [packet |-> get_packet(codec.source_id, codec.target_addr,
                                            codec.seq, codec.payload)]
    /\ UNCHANGED <<active, args, endpoint, connection, unyielded, pc, outcome, result, sender,
                   sent, recv, ack, ack_wait, waiter, message_futures, ack_futures,
                   seq_futures, seq, ready, discovered, yielded, matched, rx_error>>

InitRequest ==
    /\ InitEngine
    /\ args = [timeout |-> 3, tries |-> 3]
    /\ active = {}
    /\ \/ RequestInput("set", {t \in Targets : ~t.none},
                       {[kind |-> "Bitfield", cls |-> "SetPower", data |-> [level |-> level]] :
                           level \in {0, 65535}})
       \/ RequestInput("query", Targets, {GetService, GetPower})

NextRequest == SendSetPacket \/ SendStateRequest \/ ParseHeader

SpecRequest == InitRequest /\ [][NextRequest]_vars

\* ------------------------------------------------------------ colors
\* Hues are multiples of 1/HueSteps of a degree in [0, 360).
HueSteps == 4

\* int(x) of a quotient that is not negative.
int_div(n, d) == n \div d

\* LifxBackend.fade_color: the LightSetColor it hands to _set_color. A
\* LightColor is (hue, saturation, brightness), a LightWhite (brightness,
\* kelvin); saturation and brightness are 0 or 1 here.
fade_color(color, ms) ==
    IF color.kind = "LightColor"
    THEN [hue |-> int_div(color.hue * 65535, 360 * HueSteps),
          saturation |-> int_div(color.saturation * 65535, 1),
          brightness |-> int_div(color.brightness * 65535, 1),
          kelvin |-> 3500, duration |-> ms]
    ELSE [hue |-> 0, saturation |-> 0,
          brightness |-> int_div(color.brightness * 65535, 1),
          kelvin |-> color.kelvin, duration |-> ms]

FadeColor ==
    /\ codec.pc = "color"
    /\ codec' = [pc |-> "hsbk", color |-> codec.color, ms |-> codec.ms,
                 packet |-> fade_color(codec.color, codec.ms)]
    /\ UNCHANGED <<active, args, endpoint, connection, unyielded, pc, outcome, result, sender,
                   sent, recv, ack, ack_wait, waiter, message_futures, ack_futures,
                   seq_futures, seq, ready, discovered, yielded, matched, rx_error>>

InitColor ==
    /\ InitEngine
    /\ args = [timeout |-> 3, tries |-> 3]
    /\ active = {}
    /\ \E ms \in {0, 500} :
          \/ \E h \in 0 .. 360 * HueSteps - 1, sat \in {0, 1}, b \in {0, 1} :
                codec = [pc |-> "color", ms |-> ms,
                         color |-> [kind |-> "LightColor", hue |-> h,
                                    saturation |-> sat, brightness |-> b]]
          \/ \E b \in {0, 1}, k \in {2500, 9000} :
                codec = [pc |-> "color", ms |-> ms,
                         color |-> [kind |-> "LightWhite", brightness |-> b,
                                    kelvin |-> k]]

NextColor == FadeColor

SpecColor == InitColor /\ [][NextColor]_vars

\* ------------------------------------------------------------ properties
Directed == { o \in Ops : Kind(o) \in {"query", "ping"} }
Queries == { o \in Ops : Kind(o) = "query" }
Sets == { o \in Ops : Kind(o) = "set" }
Discoveries == { o \in Ops : Kind(o) = "discover" }

\* The waiter of directed operation o is in the reply table.
Registered(o) ==
    /\ ReplyKey(Addr(o), StateType(o)) \in DOMAIN message_futures
    /\ message_futures[ReplyKey(Addr(o), StateType(o))] = o

\* Some callback of operation o is scheduled.
Scheduled(o) == \E i \in 1 .. Len(ready) : ready[i].o = o

\* C1: discover_lights always terminates. Once its sender has completed,
\* a discovery whose consumer is not holding a yielded light either still
\* has a step scheduled or has ended, with no broadcast waiter for
\* StateService left in the reply table: it never sits waiting for a
\* further datagram.
C1_DiscoveryEndsWithSender ==
    \A o \in Discoveries :
        (sender[o].task = "done" /\ pc[o] # "yielded")
            => \/ Scheduled(o)
               \/ /\ pc[o] = "done"
                  /\ AllKey(StateType(o)) \notin DOMAIN message_futures

\* C2: an Acknowledgement from the light's address that carries any of the
\* sequences a set operation registered for its retries completes the
\* operation successfully; an Acknowledgement for one of its sequences
\* that arrives after the operation has completed resolves nothing.
C2_AckOfAnyRetry ==
    /\ [](\A o \in Sets :
            (pc[o] = "done" /\ matched[o] # NoDatagram) => outcome[o] = "ok")
    /\ [][\A o \in Sets : \A d \in DatagramsSet :
            (pc[o] = "done" /\ Matches(o, d) /\ datagram_received(d))
                => (ack' = ack /\ recv' = recv /\ rx_error' = rx_error)]_vars

\* A set operation that sent its three retries and succeeded by the
\* Acknowledgement of the second.
C2_Witness ==
    \E o \in Sets :
        /\ pc[o] = "done" /\ outcome[o] = "ok"
        /\ Len(sent[o]) = Tries
        /\ matched[o].sequence = sent[o][2]

\* C3: an acknowledged set operation is resolved exactly once; a second
\* matching Acknowledgement received before _remove_ack has run is
\* discarded without error: datagram_received never calls set_result on a
\* handle that is done.
C3_ResolvedOnce == ~rx_error

\* C4: a directed query or ping that received no matching datagram fails
\* with LichtTimeoutError, after exactly `tries` copies of the request
\* were transmitted and the last retry interval has elapsed.
C4_TimeoutAfterAllRetries ==
    \A o \in Directed :
        (pc[o] = "done" /\ outcome[o] # "ValueError" /\ matched[o] = NoDatagram)
            => /\ outcome[o] = "LichtTimeoutError"
               /\ Len(sent[o]) = Tries
               /\ sender[o].sleep = "done"

\* C5: a set operation that received no matching Acknowledgement raises
\* LichtTimeoutError to its caller, after its sender has exhausted its
\* `tries` transmissions.
C5_SetTimeoutRaised ==
    \A o \in Sets :
        (pc[o] = "done" /\ matched[o] = NoDatagram)
            => /\ outcome[o] = "LichtTimeoutError"
               /\ Len(sent[o]) = Tries
               /\ sender[o].task = "done"

\* C6: under fair scheduling every directed query, ping and set operation
\* returns to its caller, whatever datagrams arrive, are duplicated or
\* are lost: again and again no operation is in flight.
C6_EveryOperationReturns == []<>(\A o \in Ops : ~InFlight(o))

\* One operation has returned a result and another a timeout.
C6_Witness ==
    \E a, b \in Ops :
        /\ pc[a] = "done" /\ outcome[a] = "ok"
        /\ pc[b] = "done" /\ outcome[b] = "LichtTimeoutError"

\* C7: registering a second waiter on an occupied reply key fails with
\* ValueError, and no packet is transmitted for the operation so refused.
C7_RefusedWithoutPacket ==
    \A o \in Ops : outcome[o] = "ValueError" => sent[o] = <<>>

\* C8: a datagram that is no Acknowledgement resolves the directed waiter
\* registered for its host, port, type and target (or for no target),
\* also while a broadcast waiter for its type is registered; and it leaves
\* alone every directed waiter whose host, port, type or target differs.
C8_RoutedToDirectedWaiter ==
    [][\A d \in DatagramsDiscover : datagram_received(d) =>
          \A o \in Directed :
             IF Matches(o, d)
             THEN Registered(o) => (recv'[o].st = "result" /\ recv'[o].data = d)
             ELSE recv'[o] = recv[o]]_vars

\* C9: a directed query returns the payload of the first matching datagram
\* received while it listened.
C9_FirstReplyIsResult ==
    \A o \in Queries :
        (pc[o] = "done" /\ matched[o] # NoDatagram)
            => (outcome[o] = "ok" /\ result[o] = matched[o].data)

\* C10: one run of discover_lights yields every address at most once.
C10_YieldedOnce ==
    \A o \in Discoveries :
        \A i, j \in 1 .. Len(yielded[o]) :
            yielded[o][i] = yielded[o][j] => i = j

\* A discovery that has yielded an address is handed a further reply of
\* that address.
C10_Witness ==
    \E o \in Discoveries :
        /\ pc[o] = "wait"
        /\ yielded[o] # <<>>
        /\ recv[o].st = "result"
        /\ LightAddr(recv[o].data) \in discovered[o]

\* C11: discover_lights collects every reply. Every light of which a
\* StateService datagram was received while the sender of the discovery
\* was running has been yielded when the discovery ends: no reply is
\* dropped for arriving before the broadcast waiter is re-armed.
C11_EveryReplyYielded ==
    \A o \in Discoveries : pc[o] = "done" => unyielded[o] = {}

\* C12: a query, ping or set operation that its caller cancels while it
\* is in flight completes with CancelledError, and from the cancellation
\* on no further packet of the operation is transmitted.
C12_CancelStopsSender ==
    /\ [](\A o \in Directed \cup Sets :
            (waiter[o] = "cancelled" /\ pc[o] = "done")
                => outcome[o] = "CancelledError")
    /\ [][\A o \in Directed \cup Sets :
            waiter[o] = "cancelled" => sent'[o] = sent[o]]_vars

\* C13: connection_lost cancels every pending reply waiter and every
\* pending acknowledgement handle at once, leaves the reply, sequence and
\* acknowledgement tables empty, and the operations that owned those
\* handles complete with CancelledError.
C13_TeardownCancelsAll ==
    /\ [][connection_lost =>
            /\ message_futures' = <<>>
            /\ seq_futures' = <<>>
            /\ ack_futures' = <<>>
            /\ \A o \in Ops : recv[o].st = "pending" => recv'[o].st = "cancelled"
            /\ \A o \in Ops : ack[o] = "pending" => ack'[o] = "cancelled"]_vars
    /\ [](\A o \in connection.pending :
            pc[o] = "done" => outcome[o] = "CancelledError")

\* C14: a datagram cut short within the header, one with an unknown type
\* code and one whose payload is shorter than the schema of its type are
\* dropped: datagram_received raises nothing, no operation fails with an
\* error of the parser, and the waiters and the loop's queue are left as
\* they were.
C14_MalformedDropped ==
    /\ [](~rx_error /\ \A o \in Directed : outcome[o] # "ValueError")
    /\ [][\A d \in DatagramsMalformed : datagram_received(d) =>
            (recv' = recv /\ message_futures' = message_futures /\ ready' = ready)]_vars

\* C15: a ping that completed successfully was resolved by an EchoResponse
\* that carries the payload the ping sent.
C15_PingPayloadVerified ==
    \A o \in Ops :
        (Kind(o) = "ping" /\ pc[o] = "done" /\ outcome[o] = "ok")
            => recv[o].data.data = EchoPayload(o)

\* C16: a backend constructed as LifxBackend(timeout=t, tries=n) spaces
\* its retries by t/n and transmits at most n copies of the packet of an
\* operation, exactly n when no reply arrives.
C16_ConstructedRetries ==
    \A o \in Directed \cup Sets :
          /\ sender[o].sleep = "pending" =>
                LifxBackend(args.timeout, args.tries).timeout * args.tries
                   = args.timeout * LifxBackend(args.timeout, args.tries).tries
          /\ Len(sent[o]) <= args.tries
          /\ (pc[o] = "done" /\ outcome[o] = "LichtTimeoutError"
                /\ matched[o] = NoDatagram) => Len(sent[o]) = args.tries

\* ------------------------------------------------------------ wire layout
\* The layout the wire format gives a schema: consecutive fields up to the
\* next byte boundary form a group, the group is one little-endian integer,
\* its first field in the most significant bits.
BitsBefore(fs, i) == SumBits(SubSeq(fs, 1, i - 1))

GroupFirst(fs, i) ==
    CHOOSE k \in 1 .. i :
        /\ BitsBefore(fs, k) % 8 = 0
        /\ \A j \in k + 1 .. i : BitsBefore(fs, j) % 8 # 0

GroupLast(fs, i) ==
    CHOOSE k \in i .. Len(fs) :
        /\ BitsBefore(fs, k + 1) % 8 = 0
        /\ \A j \in i .. k - 1 : BitsBefore(fs, j + 1) % 8 # 0

\* The integer of the group of field i in byte string b.
GroupValue(fs, b, i) ==
    int_from_bytes(SubSeq(b, BitsBefore(fs, GroupFirst(fs, i)) \div 8 + 1,
                          BitsBefore(fs, GroupLast(fs, i) + 1) \div 8))

\* The bits of field i in byte string b, as a number.
Slice(fs, b, i) ==
    (GroupValue(fs, b, i) \div (2 ^ (BitsBefore(fs, GroupLast(fs, i) + 1)
                                      - BitsBefore(fs, i + 1))))
        % (2 ^ fs[i].bits)

\* The bits a value of a field is written as, as a number.
FieldBits(field, value) ==
    CASE field.name = RESERVED -> 0
      [] field.type = "uint" -> value
      [] field.type = "int" -> value % (2 ^ field.bits)
      [] field.type = "bool" -> IF value THEN 1 ELSE 0
      [] field.type = "bytes" -> int_from_bytes(value)
      [] OTHER -> int_from_bytes(to_bytes(field.type, value))

\* A record value whose every value has the type and the width of its
\* field.
RECURSIVE WellTyped(_, _)
WellTyped(fs, v) ==
    \A i \in DOMAIN fs :
        LET f == fs[i] IN
        f.name # RESERVED =>
            CASE f.type = "uint" -> v[f.name] \in 0 .. 2 ^ f.bits - 1
              [] f.type = "int" -> v[f.name] \in -(2 ^ (f.bits - 1)) .. 2 ^ (f.bits - 1) - 1
              [] f.type = "bool" -> v[f.name] \in BOOLEAN
              [] f.type = "bytes" -> Len(v[f.name]) * 8 = f.bits
              [] OTHER -> WellTyped(fields(f.type), v[f.name])

Named(fs) == { i \in DOMAIN fs : fs[i].name # RESERVED }

\* C17: for every schema and every well-typed record value v,
\* from_bytes(to_bytes(v)) succeeds and equals v, in both paths and with
\* nested records.
C17_ValueRoundTrip ==
    (codec.pc = "reparsed" /\ WellTyped(fields(codec.cls), codec.v))
        => codec.r = [error |-> "none", data |-> codec.v]

\* C18: for every schema and every byte string b of at least total_bytes
\* bytes, to_bytes(from_bytes(b)) has total_bytes bytes and equals b on
\* the bits of every non-reserved field.
C18_ByteRoundTrip ==
    codec.pc = "reserialized" =>
        /\ Len(codec.b2) = total_bytes(codec.cls)
        /\ \A i \in Named(fields(codec.cls)) :
              Slice(fields(codec.cls), codec.b2, i) = Slice(fields(codec.cls), codec.b, i)

\* C18, as it holds: to_bytes(from_bytes(b)) has total_bytes bytes and
\* equals b on the bits of every non-reserved field that is not boolean;
\* a boolean field is written back as 1 if any of its bits was set in b
\* and as 0 if none was.
C18_ByteRoundTripBool ==
    codec.pc = "reserialized" =>
        /\ Len(codec.b2) = total_bytes(codec.cls)
        /\ \A i \in Named(fields(codec.cls)) :
              LET fs == fields(codec.cls) IN
              IF fs[i].type = "bool"
              THEN Slice(fs, codec.b2, i) = (IF Slice(fs, codec.b, i) # 0 THEN 1 ELSE 0)
              ELSE Slice(fs, codec.b2, i) = Slice(fs, codec.b, i)

\* A byte string longer than the schema, with bits set under a reserved
\* field and a boolean field of more than one bit set, has gone through
\* from_bytes and to_bytes.
C18_Witness ==
    /\ codec.pc = "reserialized"
    /\ Len(codec.b) > total_bytes(codec.cls)
    /\ \/ \E i \in Named(fields(codec.cls)) :
             fields(codec.cls)[i].type = "bool" /\ Slice(fields(codec.cls), codec.b, i) > 1
       \/ \E i \in DOMAIN fields(codec.cls) \ Named(fields(codec.cls)) :
             Slice(fields(codec.cls), codec.b, i) # 0

\* C19: to_bytes of every record value the constructor accepts has
\* exactly total_bytes bytes, whatever the length of its raw-bytes values.
C19_SerializedSize ==
    codec.pc = "serialized" => Len(codec.b) = total_bytes(codec.cls)

\* C20: in the bit-packed path the bytes of a group are the little-endian
\* form of the integer that holds the group's fields from the most
\* significant bits (first field) to the least significant (last field):
\* to_bytes writes every field's value to its slice of that integer and
\* zeros to the reserved slices, from_bytes reads every field's value
\* from its slice (a boolean as whether its slice is not zero).
C20_GroupLayout ==
    ( /\ codec.pc \in {"serialized", "parsed"}
      /\ ~IsSimple(codec.cls)
      /\ WellTyped(fields(codec.cls), codec.v) )
        => \A i \in DOMAIN fields(codec.cls) :
              LET fs == fields(codec.cls) IN
              CASE i \notin Named(fs) ->
                      codec.pc = "serialized" => Slice(fs, codec.b, i) = 0
                [] codec.pc = "parsed" /\ fs[i].type = "bool" ->
                      codec.v[fs[i].name] = (Slice(fs, codec.b, i) # 0)
                [] OTHER ->
                      Slice(fs, codec.b, i) = FieldBits(fs[i], codec.v[fs[i].name])

\* ReservedFullBitfield(foo=2048, bar=7) is serialized as 00 08 07: foo in
\* the low twelve bits of the first two bytes, bar in the low three bits
\* of the third.
C20_Witness ==
    /\ codec.pc = "serialized"
    /\ codec.cls = "ReservedFullBitfield"
    /\ codec.v["foo"] = 2048 /\ codec.v["bar"] = 7
    /\ codec.b = <<0, 8, 7>>

\* C21: serializing the schema a(4 bits, unsigned), b(12 bits, unsigned)
\* with a = 0x8 and b = 0x0D produces the two bytes 0x80 0x0D in that
\* order.
C21_PairBytes ==
    ( /\ codec.pc = "serialized" /\ codec.cls = "PackedPair"
      /\ codec.v["a"] = 8 /\ codec.v["b"] = 13 )
        => codec.b = <<128, 13>>

\* C21, as it holds: the two bytes are 0x0D 0x80, the little-endian form
\* of the 16-bit integer 0x800D that holds a in its four most significant
\* bits and b in its twelve least significant bits.
C21_PairBytesLittleEndian ==
    ( /\ codec.pc = "serialized" /\ codec.cls = "PackedPair"
      /\ codec.v["a"] = 8 /\ codec.v["b"] = 13 )
        => codec.b = <<13, 128>>

\* PackedPair(a=0x8, b=0x0D) has been serialized.
C21_Witness ==
    /\ codec.pc = "serialized" /\ codec.cls = "PackedPair"
    /\ codec.v["a"] = 8 /\ codec.v["b"] = 13
    /\ Len(codec.b) = 2

\* The schemas with a reserved field, and the record values none of whose
\* raw-bytes values is longer than its field.
HasReserved(cls) == Named(fields(cls)) # DOMAIN fields(cls)

Fits(fs, v) ==
    \A i \in Named(fs) : fs[i].type = "bytes" => Len(v[fs[i].name]) * 8 <= fs[i].bits

\* C22: in both paths a reserved field occupies its declared width on the
\* wire. to_bytes writes zeros at its bits and every other field at its
\* own bits; from_bytes reads every named field from its own bits,
\* whatever the bits of the reserved fields are, and the record it
\* returns has the named fields only.
C22_ReservedOnWire ==
    LET fs == fields(codec.cls) IN
    /\ (codec.pc = "serialized" /\ HasReserved(codec.cls) /\ Fits(fs, codec.v))
          => /\ Len(codec.b) = total_bytes(codec.cls)
             /\ \A i \in DOMAIN fs :
                   Slice(fs, codec.b, i)
                     = FieldBits(fs[i], IF i \in Named(fs) THEN codec.v[fs[i].name] ELSE 0)
    /\ (codec.pc = "parsed" /\ HasReserved(codec.cls))
          => /\ DOMAIN codec.v = { fs[i].name : i \in Named(fs) }
             /\ \A i \in Named(fs) :
                   IF fs[i].type = "bool"
                   THEN codec.v[fs[i].name] = (Slice(fs, codec.b, i) # 0)
                   ELSE FieldBits(fs[i], codec.v[fs[i].name]) = Slice(fs, codec.b, i)

\* reserved(16), foo(16), reserved(8), bar(16) parsed from b"zzqqzaa" has
\* given foo = b"qq" and bar = b"aa".
C22_Witness ==
    /\ codec.pc = "parsed" /\ codec.cls = "ReservedSimpleBitfield"
    /\ codec.b = <<122, 122, 113, 113, 122, 97, 97>>
    /\ codec.v["foo"] = <<113, 113>> /\ codec.v["bar"] = <<97, 97>>

\* The w/8 bytes the wire format gives a raw-bytes value in a field of w
\* bits: the value padded with NUL bytes on the right, or cut to its first
\* w/8 bytes.
Padded(value, n) == Take(value \o Zeros(n - Len(value)), n)

\* C23: in both paths to_bytes emits exactly w/8 bytes for a raw-bytes
\* field of w bits: the output has total_bytes bytes and holds, at the
\* bits of the field, the value padded with NUL bytes or cut to w/8 bytes.
C23_RawBytesWidth ==
    codec.pc = "serialized" =>
        LET fs == fields(codec.cls) IN
        (\E i \in Named(fs) : fs[i].type = "bytes") =>
            /\ Len(codec.b) = total_bytes(codec.cls)
            /\ \A i \in Named(fs) :
                  fs[i].type = "bytes" =>
                      Slice(fs, codec.b, i)
                        = int_from_bytes(Padded(codec.v[fs[i].name], fs[i].bits \div 8))

\* C24: a signed field of w bits comes back from from_bytes(to_bytes(v))
\* with its value and its sign, for every v in -2^(w-1) .. 2^(w-1) - 1,
\* whether or not w is a multiple of 8.
C24_SignedRoundTrip ==
    (codec.pc = "reparsed" /\ WellTyped(fields(codec.cls), codec.v)) =>
        /\ codec.r.error = "none"
        /\ \A i \in Named(fields(codec.cls)) :
              fields(codec.cls)[i].type = "int" =>
                  codec.r.data[fields(codec.cls)[i].name]
                    = codec.v[fields(codec.cls)[i].name]

\* C25: from_bytes of a schema fails with ValueError, and returns no
\* record, exactly when it is given fewer than total_bytes bytes; given
\* total_bytes bytes or more it returns a record with every named field,
\* the one the first total_bytes bytes alone give.
C25_ShortInput ==
    /\ codec.pc = "failed"
          => /\ Len(codec.b) < total_bytes(codec.cls)
             /\ codec.error = "ValueError"
             /\ "v" \notin DOMAIN codec
    /\ codec.pc = "parsed"
          => /\ Len(codec.b) >= total_bytes(codec.cls)
             /\ DOMAIN codec.v
                  = { fields(codec.cls)[i].name : i \in Named(fields(codec.cls)) }
             /\ [error |-> "none", data |-> codec.v]
                  = from_bytes(codec.cls, Take(codec.b, total_bytes(codec.cls)))

\* A schema with a nested record has been given one byte less than its
\* total_bytes and has failed.
C25_Witness ==
    /\ codec.pc = "failed"
    /\ codec.cls \in {"NestedSimple", "NestedFull"}
    /\ Len(codec.b) = total_bytes(codec.cls) - 1
    /\ Len(codec.b) > 0

\* The calls the contract accepts: positional arguments alone, as many as
\* there are named fields, or keyword arguments alone, their names the set
\* of the named fields.
WellFormedCall(cls, posargs, kwargs) ==
    LET names == { fields(cls)[i].name : i \in Named(fields(cls)) } IN
    \/ posargs # <<>> /\ DOMAIN kwargs = {} /\ Len(posargs) = Cardinality(names)
    \/ posargs = <<>> /\ DOMAIN kwargs = names

\* C26: construction succeeds for exactly the well-formed calls and fails
\* with ValueError for the others; positional arguments are bound to the
\* named fields in schema order and keyword arguments by name; setting a
\* name of the schema changes that field alone, and setting any other
\* name fails with ValueError and leaves the record as it was.
C26_ConstructAndSet ==
    LET fs == fields(codec.cls) IN
    /\ codec.pc \in {"constructed", "rejected"}
          => /\ (codec.pc = "constructed")
                    <=> WellFormedCall(codec.cls, codec.posargs, codec.kwargs)
             /\ codec.pc = "rejected" => codec.error = "ValueError"
             /\ (codec.pc = "constructed" /\ codec.posargs # <<>>)
                    => \A i \in Named(fs) :
                          codec.data[fs[i].name]
                            = codec.posargs[Cardinality({j \in Named(fs) : j <= i})]
             /\ (codec.pc = "constructed" /\ codec.posargs = <<>>)
                    => codec.data = codec.kwargs
    /\ codec.pc = "set"
          => IF codec.key \in { fs[i].name : i \in Named(fs) }
             THEN /\ codec.error = "none"
                  /\ codec.data = [codec.before EXCEPT ![codec.key] = codec.value]
             ELSE /\ codec.error = "ValueError"
                  /\ codec.data = codec.before

\* ReservedFullBitfield(1, 2) has bound foo = 1 and bar = 2 across the
\* reserved fields, and setting the name zzz on it has failed.
C26_Witness ==
    /\ codec.pc = "set" /\ codec.cls = "ReservedFullBitfield"
    /\ codec.posargs = <<1, 2>>
    /\ codec.before["foo"] = 1 /\ codec.before["bar"] = 2
    /\ codec.key = "zzz" /\ codec.error = "ValueError"

\* C27: the header parsed from a packet of _make_packet gives back the
\* arguments and the protocol constants: tagged iff there is no target,
\* target the MAC padded with NUL bytes to the width of the field (all NUL
\* without a target), the two flags, the sequence number, the code of the
\* payload's message type, origin 0, addressable set, protocol 1024, the
\* source identifier, and size the length of the whole packet, which is
\* that of the header plus that of the payload.
C27_HeaderOfPacket ==
    codec.pc = "header" =>
        /\ codec.header.error = "none"
        /\ LET h == codec.header.data
               target_bytes == fields("FrameAddress")[1].bits \div 8
           IN /\ h["frame"]["tagged"] = codec.target_addr.none
              /\ h["frame_address"]["target"]
                   = IF codec.target_addr.none THEN Zeros(target_bytes)
                     ELSE Padded(codec.target_addr.bytes, target_bytes)
              /\ h["frame_address"]["ack_required"] = codec.ack
              /\ h["frame_address"]["res_required"] = codec.res
              /\ h["frame_address"]["sequence"] = codec.seq
              /\ h["protocol_header"]["type"]
                   = (IF codec.payload.kind = "MessageType" THEN codec.payload.code
                      ELSE IF codec.payload.cls = "SetPower" THEN 21 ELSE 58)
              /\ h["frame"]["origin"] = 0
              /\ h["frame"]["addressable"] = TRUE
              /\ h["frame"]["protocol"] = 1024
              /\ h["frame"]["source"] = codec.source_id
              /\ h["frame"]["size"] = Len(codec.packet)
              /\ Len(codec.packet)
                   = total_bytes("Header")
                       + (IF codec.payload.kind = "MessageType" THEN 0 ELSE 2)

\* The header of an acknowledged SetPower packet to a MAC shorter than the
\* target field has been parsed.
C27_Witness ==
    /\ codec.pc = "header"
    /\ codec.payload.kind = "Bitfield" /\ codec.payload.cls = "SetPower"
    /\ ~codec.target_addr.none /\ codec.target_addr.bytes = <<1>>
    /\ codec.ack /\ ~codec.res /\ codec.seq = 255
    /\ codec.header.data["frame"]["size"] = total_bytes("Header") + 2

\* C28: the hue that fade_color encodes for an HSB color of hue h in
\* [0, 360) is the integer nearest to h * 65535 / 360, and lies in
\* 0 .. 65535.
C28_HueNearest ==
    (codec.pc = "hsbk" /\ codec.color.kind = "LightColor") =>
        LET raw == codec.packet.hue
            n == codec.color.hue * 65535
            d == 360 * HueSteps
        IN /\ raw \in 0 .. 65535
           /\ 2 * (raw * d - n) <= d
           /\ 2 * (n - raw * d) <= d

\* C29: when a directed query or ping has returned to its caller, with a
\* result, a timeout, the caller's cancellation or an error, its key is
\* not in the reply table; and the cancel_response of a sender whose key
\* is not in the table changes neither the table nor a waiter.
C29_NoKeyOnReturn ==
    /\ [](\A o \in Directed : pc[o] = "done" => ~Registered(o))
    /\ [][\A o \in Directed :
            (get_packet_response(o)
               /\ ReplyKey(Addr(o), StateType(o)) \notin DOMAIN message_futures)
                  => (message_futures' = message_futures /\ recv' = recv)]_vars

\* The tables hold something of set operation o: its completion handle in
\* the acknowledgement table, or a sequence key registered for it.
Leaked(o) ==
    \/ o \in DOMAIN ack_futures
    \/ \E k \in DOMAIN seq_futures : seq_futures[k] = o

\* C30: once a set operation has completed, by an Acknowledgement of any
\* of its retries or by timeout, and its sender has stopped, the sequence
\* table holds no key registered for it and the acknowledgement table
\* does not hold its handle; and a sender whose handle has been removed
\* registers nothing.
C30_NoSequenceLeak ==
    /\ [](\A o \in Sets :
            ( /\ pc[o] = "done"
              /\ outcome[o] \in {"ok", "LichtTimeoutError"}
              /\ sender[o].task # "pending" ) => ~Leaked(o))
    /\ [][\A o \in Sets :
            (send_set_packet(o) /\ o \notin DOMAIN ack_futures)
                => (seq_futures' = seq_futures /\ ack_futures' = ack_futures)]_vars

\* A set operation that sent all its retries has succeeded by the
\* Acknowledgement of an earlier one, its sender has been cancelled, and
\* the tables are empty.
C30_Witness ==
    \E o \in Sets :
        /\ pc[o] = "done" /\ outcome[o] = "ok"
        /\ Len(sent[o]) = Tries
        /\ matched[o].sequence # sent[o][Tries]
        /\ sender[o].task # "pending"
        /\ seq_futures = <<>> /\ ack_futures = <<>>

\* A sender task that has been cancelled and has not yet run its cleanup.
Cancelling(o) ==
    /\ sender[o].task = "pending"
    /\ (sender[o].must_cancel \/ sender[o].sleep = "cancelled")

\* C31: when the receive path resolves the waiter of a directed query, a
\* ping or a set operation, the sender is cancelled: once the operation
\* has returned success to its caller its sender has ended or has been
\* cancelled, and no further copy of its request is transmitted.
C31_NoSendAfterSuccess ==
    /\ [](\A o \in Directed \cup Sets :
            (pc[o] = "done" /\ outcome[o] = "ok")
                => (sender[o].task = "done" \/ Cancelling(o)))
    /\ [][\A o \in Directed \cup Sets :
            (pc[o] = "done" /\ outcome[o] = "ok") => sent'[o] = sent[o]]_vars

\* A set operation has returned success before its retries were used up,
\* and its cancelled sender has run to its end.
C31_Witness ==
    \E o \in Sets :
        /\ pc[o] = "done" /\ outcome[o] = "ok"
        /\ Len(sent[o]) < Tries
        /\ sender[o].task = "done"

\* The sequence table binds the sequence of the packet that set operation
\* o transmitted last to the handle of o.
LastRegistered(o) ==
    LET key == <<Addr(o), sent[o][Len(sent[o])]>> IN
    key \in DOMAIN seq_futures /\ seq_futures[key] = o

HasWaiter(d) ==
    IF d.type = "Acknowledgement"
    THEN <<<<d.host, d.port, d.target>>, d.sequence>> \in DOMAIN seq_futures
    ELSE \/ AllKey(d.type) \in DOMAIN message_futures
         \/ ReplyKey(<<d.host, d.port, d.target>>, d.type) \in DOMAIN message_futures
         \/ ReplyKey(<<d.host, d.port, NoTarget>>, d.type) \in DOMAIN message_futures

\* C33: a well-formed datagram whose key matches no registered waiter is
\* discarded: the reply, sequence and acknowledgement tables and the state
\* of every completion handle are unchanged, nothing is scheduled and
\* datagram_received raises nothing.
C33_UnmatchedDiscarded ==
    [][\A d \in DatagramsDiscard :
         (datagram_received(d) /\ parse_response(d) = "response" /\ ~HasWaiter(d))
            => /\ message_futures' = message_futures
               /\ seq_futures' = seq_futures
               /\ ack_futures' = ack_futures
               /\ recv' = recv /\ ack' = ack
               /\ ready' = ready /\ rx_error' = rx_error]_vars

\* A discovery holds the reply of no light, a StateService datagram of
\* light h2 was received and discarded while the broadcast waiter was not
\* registered, and meanwhile the set operation waits with a sequence key
\* registered for its pending handle.
C33_Witness ==
    /\ pc["d1"] = "yielded"
    /\ <<"h2", LIFX_PORT, "m2">> \in unyielded["d1"]
    /\ AllKey("StateService") \notin DOMAIN message_futures
    /\ ack["s1"] = "pending" /\ seq_futures # <<>>

\* C34: sequence numbers come from one counter modulo 256. The counter
\* and every sequence transmitted are in 0 .. 255; every allocation moves
\* the counter to (value + 1) mod 256, so that consecutive allocations
\* return consecutive values and 255 is followed by 0; every packet of a
\* query and every retry of a set operation carries the value allocated
\* for it at that moment, and a ping the value allocated at its start.
C34_SequenceCounter ==
    /\ [](/\ seq \in 0 .. 255
          /\ \A o \in Ops : \A i \in 1 .. Len(sent[o]) : sent[o][i] \in 0 .. 255)
    /\ [][seq' # seq => seq' = (seq + 1) % 256]_vars
    /\ [][\A o \in Sets \cup Queries :
            sent'[o] # sent[o]
               => (sent'[o] = Append(sent[o], seq) /\ seq' = (seq + 1) % 256)]_vars
    /\ [][\A o \in Ops :
            (Kind(o) = "ping" /\ pc[o] = "idle" /\ pc'[o] = "wait")
               => (sender'[o].packet_seq = seq /\ seq' = (seq + 1) % 256)]_vars

\* The retries of a set operation carried 255 and then 0, while another
\* set operation was allocating in between or not.
C34_Witness ==
    \E o \in Sets : \E i \in 1 .. Tries - 1 :
        /\ Len(sent[o]) > i
        /\ sent[o][i] = 255 /\ sent[o][i + 1] = 0
        /\ seq < 254

\* C35: every packet of a directed set operation goes to the light's MAC
\* with tagged = 0, ack_required = 1 and res_required = 0, and every packet
\* of a directed query with a known MAC goes to that MAC with tagged = 0
\* and ack_required and res_required both clear.
C35_RequestFlags ==
    (codec.pc = "header" /\ ~codec.target_addr.none) =>
        /\ codec.header.error = "none"
        /\ LET h == codec.header.data IN
           /\ h["frame_address"]["target"]
                = Padded(codec.target_addr.bytes, fields("FrameAddress")[1].bits \div 8)
           /\ h["frame"]["tagged"] = FALSE
           /\ h["frame_address"]["ack_required"] = (codec.op = "set")
           /\ h["frame_address"]["res_required"] = FALSE

\* The header of a SetPower packet of a set operation and that of a
\* GetPower packet of a query, both to a MAC, have been parsed.
C35_Witness ==
    /\ codec.pc = "header" /\ ~codec.target_addr.none
    /\ codec.target_addr.bytes = <<255, 255>>
    /\ \/ codec.op = "set" /\ codec.header.data["protocol_header"]["type"] = SetPower
       \/ codec.op = "query" /\ codec.header.data["protocol_header"]["type"] = GetPower

\* A step of the sender of operation a: of a directed query or ping, or of
\* a discovery.
SenderStep(a) == get_packet_response(a) \/ send_discover_packets(a)

\* C36: the cleanup of an operation removes and cancels only waiters that
\* the operation registered. A step of the sender of operation a leaves
\* the reply future of every other operation as it was and every key of
\* another operation in the reply table; so an operation that fails with
\* the timeout error has transmitted all its own retries.
C36_OwnWaitersOnly ==
    /\ [][\A a \in Directed \cup Discoveries :
            SenderStep(a) =>
               /\ \A b \in Ops \ {a} : recv'[b] = recv[b]
               /\ \A k \in DOMAIN message_futures :
                     message_futures[k] # a
                        => (k \in DOMAIN message_futures'
                              /\ message_futures'[k] = message_futures[k])]_vars
    /\ [](\A b \in Directed :
            (pc[b] = "done" /\ outcome[b] = "LichtTimeoutError") => Len(sent[b]) = Tries)

\* The caller cancels operation o, at whichever point it is suspended.
CallerCancels(o) == cancel(o) \/ cancel_awaiting(o)

\* C37: cancelling one caller's operation at any of its suspension points,
\* also while the shared endpoint is being created, makes no other
\* operation fail or be cancelled: the cancellation changes nothing of
\* another operation, an operation that its caller did not cancel ends
\* with its result or with the timeout, and the endpoint task is never
\* cancelled.
C37_CancelHarmsNoOther ==
    /\ [][\A o \in Ops : CallerCancels(o) =>
            \A b \in Ops \ {o} :
               /\ pc'[b] = pc[b] /\ outcome'[b] = outcome[b]
               /\ recv'[b] = recv[b] /\ ack'[b] = ack[b]]_vars
    /\ [](\A b \in Ops :
            (pc[b] = "done" /\ waiter[b] # "cancelled")
                => outcome[b] \in {"ok", "LichtTimeoutError"})
    /\ [](endpoint # "cancelled")

\* C38: the sequence table and the acknowledgement table are consistent in
\* every reachable state: every key of the sequence table maps to a handle
\* that is in the acknowledgement table and lists the key; every key
\* listed for a handle is in the sequence table and maps to that handle;
\* no key is listed for two handles, nor twice for one.
C38_TablesConsistent ==
    /\ \A k \in DOMAIN seq_futures :
          /\ seq_futures[k] \in DOMAIN ack_futures
          /\ k \in Range(ack_futures[seq_futures[k]])
    /\ \A o \in DOMAIN ack_futures : \A i \in 1 .. Len(ack_futures[o]) :
          /\ ack_futures[o][i] \in DOMAIN seq_futures
          /\ seq_futures[ack_futures[o][i]] = o
          /\ \A j \in 1 .. Len(ack_futures[o]) :
                ack_futures[o][i] = ack_futures[o][j] => i = j
    /\ \A a, b \in DOMAIN ack_futures :
          a # b => Range(ack_futures[a]) \cap Range(ack_futures[b]) = {}

\* Two set operations have their handles in the acknowledgement table, one
\* with the keys of two retries and the other with one, all three in the
\* sequence table.
C38_Witness ==
    /\ DOMAIN ack_futures = {"s1", "s2"}
    /\ Len(ack_futures["s1"]) = 2 /\ Len(ack_futures["s2"]) = 1
    /\ Cardinality(DOMAIN seq_futures) = 3

\* C39: an Acknowledgement resolves a set operation only if its host,
\* port, target and sequence make a key that this operation registered;
\* one from another host, port or target, or with a sequence that another
\* operation registered, leaves its handle as it was. An Acknowledgement
\* changes neither the reply table nor a reply waiter, and a datagram that
\* is no Acknowledgement changes no acknowledgement handle.
C39_AckByOwnKey ==
    [][(ack' # ack \/ recv' # recv \/ message_futures' # message_futures) =>
       \A d \in DatagramsAck : datagram_received(d) =>
         /\ \A o \in Sets :
               ack'[o] # ack[o] =>
                  /\ d.type = "Acknowledgement"
                  /\ o \in DOMAIN ack_futures
                  /\ <<<<d.host, d.port, d.target>>, d.sequence>> \in Range(ack_futures[o])
                  /\ <<d.host, d.port, d.target>> = Addr(o)
                  /\ ack'[o] = "result"
         /\ d.type = "Acknowledgement" =>
               (message_futures' = message_futures /\ recv' = recv)
         /\ d.type # "Acknowledgement" => ack' = ack]_vars

\* A set operation was resolved by the Acknowledgement of its own second
\* sequence while another set operation, with a sequence of its own
\* registered, is still pending; or while a query's waiter is pending in
\* the reply table.
C39_Witness ==
    /\ ack["s1"] = "result"
    /\ Len(sent["s1"]) >= 2 /\ matched["s1"].sequence = sent["s1"][2]
    /\ \/ ack["s2"] = "pending" /\ Len(sent["s2"]) >= 1
       \/ Registered("q1") /\ recv["q1"].st = "pending"

====
